---- MODULE Spec2Model ----
(***************************************************************************)
(* Model of the Dropbox AI Search application: the client-side indexing    *)
(* loop (FileIndexer), the search endpoint (term expansion, relevance      *)
(* scoring, ordering, truncation) and the PDF content-extraction endpoint. *)
(*                                                                         *)
(* Text is modelled as a sequence of character tokens (one-character       *)
(* strings; "euml" stands for the letter e with diaeresis).  Scores are    *)
(* exact rationals kept as integers in units of 1/ScoreScale.              *)
(***************************************************************************)
EXTENDS Integers, Sequences, FiniteSets, TLC

VARIABLES
  \* ---- search endpoint (POST /api/search) ----
  sPc,          \* "request" (a request is pending) or "responded"
  sRequest,     \* the JSON body: query, fileIndex and maxResults (each of
                \* the last two may be absent)
  sRelevance,   \* per input file: relevanceData of calculateRelevanceScore
  sResponse     \* the JSON response of the handler

VARIABLES
  \* ---- content endpoint (POST /api/dropbox/content) ----
  cPc,          \* "request", "strategy", "post" or "responded"
  cRequest,     \* the request: is the body JSON, which fields it carries
  cBlob,        \* the downloaded fileBinary: "none", "undefined", "empty",
                \* "notPdf" or "pdf"
  cStep,        \* the extraction step that runs next (1..4 the pdf-parse
                \* configurations, 5..9 the other strategies)
  cPdfParseInitialized, \* the module-level flag of initializePdfParse
  cExtract,     \* content, extractionMethod and extractionSuccess so far
  cResponse     \* the JSON response of the handler

VARIABLES
  \* ---- the application state (DropboxAISearch) ----
  authenticated,     \* the user is logged in: accessToken, isAuthenticated
                     \* and localStorage 'dropbox_access_token', which are
                     \* set and cleared together
  appFileIndex,      \* the fileIndex state: the document collection
  storedIndex,       \* localStorage 'dropbox_file_index': <<>> when absent,
                     \* else a one-element sequence holding the saved index
                     \* ('dropbox_last_indexed' is written and removed
                     \* together with it)
  isIndexing,        \* the isIndexing state
  indexingProgress,  \* the indexingProgress state
  \* ---- one run of startIndexing (FileIndexer) ----
  runPc,             \* "idle", "listing", "loop", "batch" or "delay"
  runs,              \* number of runs started so far
  resetFromZero,     \* the argument of startIndexing
  existingIndex,     \* the existingIndex prop the run's closure captured
  abortController,   \* abortControllerRef: "null", "live" or "aborted"
  filesToProcess,    \* the listed files the run processes
  fileIndex,         \* the local fileIndex array of the run
  batchStart,        \* the loop variable i (number of files in earlier batches)
  processed,         \* the local counter processed
  tasks,             \* the per-file promises of the batch in flight
  indexingStatus,    \* how the last run ended
  processingDetails  \* the per-file outcome messages logged by the run (as a
                     \* set; the retry notices are left out)

VARIABLES
  \* ---- the text cleaning passes applied to one text ----
  clInput,      \* the text handed to the cleaning functions
  clUltra,      \* the results of ultraCleanPdfText, pass after pass
  clPlain       \* the results of cleanPdfText, pass after pass

ixVars == <<authenticated, appFileIndex, storedIndex, isIndexing, indexingProgress, runPc, runs,
            resetFromZero, existingIndex, abortController, filesToProcess,
            fileIndex, batchStart, processed, tasks, indexingStatus,
            processingDetails>>
srchVars == <<sPc, sRequest, sRelevance, sResponse>>
ctVars == <<cPc, cRequest, cBlob, cStep, cPdfParseInitialized, cExtract, cResponse>>
VARIABLES
  \* ---- the streaming AI answer of the search interface ----
  stComponent,        \* which version of SearchInterface runs: "history"
                      \* (the version with the search history) or "plain"
  stPc,               \* "idle", "fetching" or "streaming"
  stRequests,         \* number of requests started so far
  aiResponse,         \* the aiResponse state: the displayed answer
  renderedAiResponse, \* aiResponse as the render that started the request
                      \* saw it (the value the handler's closure holds)
  isStreaming,        \* the isStreaming state
  abortControllerRef, \* abortControllerRef.current: "null", "live", "aborted"
  fullResponse,       \* the tokens received for the current request
  stOutcome,          \* how the last request ended: "none", "done",
                      \* "error" or "aborted"
  streamEvents        \* the events the route has put on the stream of the
                      \* current request and the client has read: "token",
                      \* "done" (data.done) or "error" (data.error)

clVars == <<clInput, clUltra, clPlain>>
stVars == <<stComponent, stPc, stRequests, aiResponse, renderedAiResponse,
            isStreaming, abortControllerRef, fullResponse, stOutcome,
            streamEvents>>
VARIABLES
  \* ---- the truncation of one post-processed content ----
  trInput,      \* the content and the character ceiling of the route
  trOutput      \* <<>>, or the one result of the truncation

VARIABLES
  \* ---- one call of extractContext (search route) ----
  exArgs,       \* the arguments: content, searchTerms and maxLength
  exResult      \* <<>>, or the one result: the contexts array (each context
                \* with the region of the content it was cut from) and the
                \* returned string

pureVars == <<trInput, trOutput, exArgs, exResult>>
auxVars == <<clVars, stVars, pureVars>>
vars == <<srchVars, ctVars, ixVars, auxVars>>

(***************************************************************************)
(* Bounds of the model.                                                    *)
(***************************************************************************)
MaxDocs == 3        \* documents in the fileIndex of one search request
MaxWords == 2       \* words composed into one generated file name
MaxResultsBound == 3 \* largest explicit maxResults sent in a request
MaxRuns == 1        \* indexing runs started in one session
MaxModified == 2    \* server_modified timestamps of a listed file: 1..MaxModified
MaxPieces == 2      \* pieces a cleaned text is composed of
MaxRequests == 2    \* AI requests started in one session of the interface
MaxTokens == 2      \* tokens a stream delivers for one request

(***************************************************************************)
(* Characters and strings.                                                 *)
(***************************************************************************)
LowerLetters ==
  <<"a","b","c","d","e","f","g","h","i","j","k","l","m","n","o","p","q","r","s","t","u","v","w","x","y","z">>
UpperLetters ==
  <<"A","B","C","D","E","F","G","H","I","J","K","L","M","N","O","P","Q","R","S","T","U","V","W","X","Y","Z">>
Digits == {"0","1","2","3","4","5","6","7","8","9"}

Range(s) == { s[i] : i \in 1..Len(s) }

\* \w of a JavaScript regular expression: [A-Za-z0-9_]
WordChars == Range(LowerLetters) \cup Range(UpperLetters) \cup Digits \cup {"_"}

\* the letters of À-ſ that occur in the model
ExtendedLatin == {"euml"}

\* the separator class [\s,;.!?] of the query split
SplitChars == {" ", ",", ";", ".", "!", "?"}

\* String.prototype.toLowerCase, one character
UpperToLower ==
  [c \in Range(UpperLetters) |-> LowerLetters[CHOOSE i \in 1..26 : UpperLetters[i] = c]]

LowerChar(c) == IF c \in DOMAIN UpperToLower THEN UpperToLower[c] ELSE c

toLowerCase(s) == [i \in 1..Len(s) |-> LowerChar(s[i])]

\* s.slice(0, -n)
DropLast(s, n) == SubSeq(s, 1, Len(s) - n)

\* s.endsWith(suffix)
endsWith(s, suffix) ==
  /\ Len(suffix) <= Len(s)
  /\ SubSeq(s, Len(s) - Len(suffix) + 1, Len(s)) = suffix

\* s.replace(/suffix$/, '')
StripSuffix(s, suffix) == IF endsWith(s, suffix) THEN DropLast(s, Len(suffix)) ELSE s

\* the term occurs in text at position p
OccursAt(text, term, p) ==
  /\ p >= 1
  /\ p + Len(term) - 1 <= Len(text)
  /\ \A k \in 1..Len(term) : text[p + k - 1] = term[k]

\* text.includes(term)
includes(text, term) == Len(term) = 0 \/ \E p \in 1..Len(text) : OccursAt(text, term, p)

IsWordAt(text, i) == i >= 1 /\ i <= Len(text) /\ text[i] \in WordChars

\* the assertion \b holds between text[i-1] and text[i]
WordBoundary(text, i) == IsWordAt(text, i - 1) # IsWordAt(text, i)

\* one match of the term's pattern at p: new RegExp(`\\b${term}\\b`) when
\* exact, new RegExp(term) otherwise (a term is letters, digits and "_")
MatchAt(text, term, p, exact) ==
  /\ OccursAt(text, term, p)
  /\ exact => (WordBoundary(text, p) /\ WordBoundary(text, p + Len(term)))

\* (text.match(new RegExp(pattern, 'g')) || []).length : matches are found
\* left to right and the scan resumes behind each match; hits are the
\* positions at which the pattern matches, length is the length of a match
RECURSIVE CountFrom(_, _, _)
CountFrom(hits, length, p) ==
  LET ahead == { q \in hits : q >= p }
  IN IF ahead = {} THEN 0
     ELSE 1 + CountFrom(hits, length,
                        (CHOOSE q \in ahead : \A r \in ahead : q <= r) + length)

CountMatches(text, term, exact) ==
  CountFrom({ q \in 1..(Len(text) - Len(term) + 1) : MatchAt(text, term, q, exact) },
            Len(term), 1)

(***************************************************************************)
(* Query preprocessing (POST, search route).                               *)
(***************************************************************************)
\* query.split(/[\s,;.!?]+/): the maximal runs of non-separator characters
\* (empty pieces at the ends are dropped by the length filter that follows)
RECURSIVE SplitFrom(_, _, _, _)
SplitFrom(s, i, cur, acc) ==
  IF i > Len(s) THEN (IF cur = <<>> THEN acc ELSE Append(acc, cur))
  ELSE IF s[i] \in SplitChars
    THEN SplitFrom(s, i + 1, <<>>, IF cur = <<>> THEN acc ELSE Append(acc, cur))
    ELSE SplitFrom(s, i + 1, Append(cur, s[i]), acc)

SplitQuery(s) == SplitFrom(s, 1, <<>>, <<>>)

\* term.replace(/[^\wÀ-ſ]/g, '')
StripNonWord(term) == SelectSeq(term, LAMBDA c : c \in WordChars \cup ExtendedLatin)

MapSeq(s, Op(_)) == [i \in 1..Len(s) |-> Op(s[i])]

\* a preprocessing without the filter that follows the cleaning
OriginalTerms_NoSecondFilter(query) ==
  MapSeq(SelectSeq(SplitQuery(toLowerCase(query)), LAMBDA t : Len(t) > 1), StripNonWord)

\* originalTerms of the handler
OriginalTerms(query) ==
  SelectSeq(
    MapSeq(SelectSeq(SplitQuery(toLowerCase(query)), LAMBDA t : Len(t) > 1), StripNonWord),
    LAMBDA t : Len(t) > 1)
(***************************************************************************)
(* Term expansion (expandSearchTerms).                                     *)
(***************************************************************************)
\* the synonym table, in the order of its keys
synonymMap ==
  <<
    \* rubrieken
    [key |-> <<"r","u","b","r","i","e","k","e","n">>,
     synonyms |-> <<
       <<"r","u","b","r","i","e","k">>,
       <<"c","a","t","e","g","o","r","i","e">>,
       <<"c","a","t","e","g","o","r","i","e","euml","n">>,
       <<"s","e","c","t","i","e">>,
       <<"s","e","c","t","i","e","s">>,
       <<"o","n","d","e","r","d","e","e","l">>,
       <<"o","n","d","e","r","d","e","l","e","n">>,
       <<"h","o","o","f","d","s","t","u","k">>,
       <<"h","o","o","f","d","s","t","u","k","k","e","n">>,
       <<"p","a","r","a","g","r","a","a","f">>,
       <<"p","a","r","a","g","r","a","f","e","n">>,
       <<"p","u","n","t">>,
       <<"p","u","n","t","e","n">>,
       <<"i","t","e","m">>,
       <<"i","t","e","m","s">>,
       <<"t","h","e","m","a">>,
       <<"t","h","e","m","a","s">>,
       <<"o","n","d","e","r","w","e","r","p">>,
       <<"o","n","d","e","r","w","e","r","p","e","n">>
     >>],
    \* evaluatie
    [key |-> <<"e","v","a","l","u","a","t","i","e">>,
     synonyms |-> <<
       <<"b","e","o","o","r","d","e","l","i","n","g">>,
       <<"b","e","o","o","r","d","e","l","i","n","g","e","n">>,
       <<"e","v","a","l","u","e","r","e","n">>,
       <<"b","e","o","o","r","d","e","l","e","n">>,
       <<"a","s","s","e","s","s","m","e","n","t">>,
       <<"t","o","e","t","s">>,
       <<"t","o","e","t","s","e","n">>,
       <<"t","e","s","t">>,
       <<"t","e","s","t","e","n">>
     >>],
    \* criteria
    [key |-> <<"c","r","i","t","e","r","i","a">>,
     synonyms |-> <<
       <<"c","r","i","t","e","r","i","u","m">>,
       <<"e","i","s","e","n">>,
       <<"e","i","s">>,
       <<"v","o","o","r","w","a","a","r","d","e","n">>,
       <<"v","o","o","r","w","a","a","r","d","e">>,
       <<"s","t","a","n","d","a","a","r","d","e","n">>,
       <<"s","t","a","n","d","a","a","r","d">>,
       <<"n","o","r","m","e","n">>,
       <<"n","o","r","m">>
     >>],
    \* competenties
    [key |-> <<"c","o","m","p","e","t","e","n","t","i","e","s">>,
     synonyms |-> <<
       <<"c","o","m","p","e","t","e","n","t","i","e">>,
       <<"v","a","a","r","d","i","g","h","e","d","e","n">>,
       <<"v","a","a","r","d","i","g","h","e","i","d">>,
       <<"s","k","i","l","l","s">>,
       <<"s","k","i","l","l">>,
       <<"b","e","k","w","a","a","m","h","e","d","e","n">>,
       <<"b","e","k","w","a","a","m","h","e","i","d">>
     >>],
    \* leeruitkomsten
    [key |-> <<"l","e","e","r","u","i","t","k","o","m","s","t","e","n">>,
     synonyms |-> <<
       <<"l","e","e","r","u","i","t","k","o","m","s","t">>,
       <<"l","e","e","r","d","o","e","l","e","n">>,
       <<"l","e","e","r","d","o","e","l">>,
       <<"d","o","e","l","s","t","e","l","l","i","n","g","e","n">>,
       <<"d","o","e","l","s","t","e","l","l","i","n","g">>,
       <<"o","b","j","e","c","t","i","e","v","e","n">>,
       <<"o","b","j","e","c","t","i","e","f">>
     >>],
    \* portfolio
    [key |-> <<"p","o","r","t","f","o","l","i","o">>,
     synonyms |-> <<
       <<"p","o","r","t","f","o","l","i","o","s">>,
       <<"d","o","s","s","i","e","r">>,
       <<"d","o","s","s","i","e","r","s">>,
       <<"v","e","r","z","a","m","e","l","i","n","g">>,
       <<"c","o","l","l","e","c","t","i","e">>,
       <<"m","a","p">>,
       <<"m","a","p","p","e","n">>
     >>],
    \* reflectie
    [key |-> <<"r","e","f","l","e","c","t","i","e">>,
     synonyms |-> <<
       <<"r","e","f","l","e","c","t","e","r","e","n">>,
       <<"n","a","d","e","n","k","e","n">>,
       <<"o","v","e","r","d","e","n","k","e","n">>,
       <<"z","e","l","f","r","e","f","l","e","c","t","i","e">>,
       <<"t","e","r","u","g","b","l","i","k">>,
       <<"e","v","a","l","u","e","r","e","n">>
     >>],
    \* feedback
    [key |-> <<"f","e","e","d","b","a","c","k">>,
     synonyms |-> <<
       <<"t","e","r","u","g","k","o","p","p","e","l","i","n","g">>,
       <<"r","e","a","c","t","i","e">>,
       <<"r","e","a","c","t","i","e","s">>,
       <<"c","o","m","m","e","n","t","a","a","r">>,
       <<"o","p","m","e","r","k","i","n","g","e","n">>,
       <<"o","p","m","e","r","k","i","n","g">>,
       <<"a","d","v","i","e","s">>
     >>],
    \* project
    [key |-> <<"p","r","o","j","e","c","t">>,
     synonyms |-> <<
       <<"p","r","o","j","e","c","t","e","n">>,
       <<"o","p","d","r","a","c","h","t">>,
       <<"o","p","d","r","a","c","h","t","e","n">>,
       <<"a","s","s","i","g","n","m","e","n","t">>,
       <<"a","s","s","i","g","n","m","e","n","t","s">>,
       <<"t","a","a","k">>,
       <<"t","a","k","e","n">>
     >>],
    \* presentatie
    [key |-> <<"p","r","e","s","e","n","t","a","t","i","e">>,
     synonyms |-> <<
       <<"p","r","e","s","e","n","t","a","t","i","e","s">>,
       <<"v","o","o","r","d","r","a","c","h","t">>,
       <<"v","o","o","r","d","r","a","c","h","t","e","n">>,
       <<"p","i","t","c","h">>,
       <<"p","i","t","c","h","e","s">>,
       <<"t","o","e","l","i","c","h","t","i","n","g">>
     >>],
    \* rapport
    [key |-> <<"r","a","p","p","o","r","t">>,
     synonyms |-> <<
       <<"r","a","p","p","o","r","t","e","n">>,
       <<"v","e","r","s","l","a","g">>,
       <<"v","e","r","s","l","a","g","e","n">>,
       <<"d","o","c","u","m","e","n","t">>,
       <<"d","o","c","u","m","e","n","t","e","n">>,
       <<"p","a","p","e","r">>,
       <<"p","a","p","e","r","s">>
     >>],
    \* onderzoek
    [key |-> <<"o","n","d","e","r","z","o","e","k">>,
     synonyms |-> <<
       <<"r","e","s","e","a","r","c","h">>,
       <<"s","t","u","d","i","e">>,
       <<"s","t","u","d","i","e","s">>,
       <<"a","n","a","l","y","s","e">>,
       <<"a","n","a","l","y","s","e","s">>,
       <<"i","n","v","e","s","t","i","g","a","t","i","e">>
     >>],
    \* samenwerking
    [key |-> <<"s","a","m","e","n","w","e","r","k","i","n","g">>,
     synonyms |-> <<
       <<"t","e","a","m","w","o","r","k">>,
       <<"g","r","o","e","p","s","w","e","r","k">>,
       <<"c","o","l","l","a","b","o","r","a","t","i","o","n">>,
       <<"s","a","m","e","n">>,
       <<"t","e","a","m">>,
       <<"g","r","o","e","p">>
     >>],
    \* communicatie
    [key |-> <<"c","o","m","m","u","n","i","c","a","t","i","e">>,
     synonyms |-> <<
       <<"c","o","m","m","u","n","i","c","e","r","e","n">>,
       <<"c","o","n","t","a","c","t">>,
       <<"g","e","s","p","r","e","k">>,
       <<"g","e","s","p","r","e","k","k","e","n">>,
       <<"o","v","e","r","l","e","g">>
     >>],
    \* planning
    [key |-> <<"p","l","a","n","n","i","n","g">>,
     synonyms |-> <<
       <<"p","l","a","n","n","e","n">>,
       <<"s","c","h","e","m","a">>,
       <<"s","c","h","e","m","a","s">>,
       <<"t","i","j","d","l","i","j","n">>,
       <<"t","i","j","d","l","i","j","n","e","n">>,
       <<"r","o","o","s","t","e","r">>
     >>],
    \* kwaliteit
    [key |-> <<"k","w","a","l","i","t","e","i","t">>,
     synonyms |-> <<
       <<"k","w","a","l","i","t","e","i","t","e","n">>,
       <<"n","i","v","e","a","u">>,
       <<"n","i","v","e","a","u","s">>,
       <<"s","t","a","n","d","a","a","r","d">>,
       <<"s","t","a","n","d","a","a","r","d","e","n">>
     >>],
    \* ontwikkeling
    [key |-> <<"o","n","t","w","i","k","k","e","l","i","n","g">>,
     synonyms |-> <<
       <<"o","n","t","w","i","k","k","e","l","e","n">>,
       <<"g","r","o","e","i">>,
       <<"v","o","o","r","u","i","t","g","a","n","g">>,
       <<"v","e","r","b","e","t","e","r","i","n","g">>,
       <<"v","e","r","b","e","t","e","r","i","n","g","e","n">>
     >>],
    \* leren
    [key |-> <<"l","e","r","e","n">>,
     synonyms |-> <<
       <<"s","t","u","d","e","r","e","n">>,
       <<"o","n","d","e","r","w","i","j","s">>,
       <<"e","d","u","c","a","t","i","e">>,
       <<"t","r","a","i","n","i","n","g">>,
       <<"c","u","r","s","u","s">>,
       <<"c","u","r","s","u","s","s","e","n">>
     >>],
    \* student
    [key |-> <<"s","t","u","d","e","n","t">>,
     synonyms |-> <<
       <<"s","t","u","d","e","n","t","e","n">>,
       <<"l","e","e","r","l","i","n","g">>,
       <<"l","e","e","r","l","i","n","g","e","n">>,
       <<"c","u","r","s","i","s","t">>,
       <<"c","u","r","s","i","s","t","e","n">>
     >>],
    \* docent
    [key |-> <<"d","o","c","e","n","t">>,
     synonyms |-> <<
       <<"d","o","c","e","n","t","e","n">>,
       <<"l","e","r","a","a","r">>,
       <<"l","e","r","a","r","e","n">>,
       <<"i","n","s","t","r","u","c","t","o","r">>,
       <<"i","n","s","t","r","u","c","t","e","u","r">>,
       <<"b","e","g","e","l","e","i","d","e","r">>
     >>],
    \* school
    [key |-> <<"s","c","h","o","o","l">>,
     synonyms |-> <<
       <<"s","c","h","o","l","e","n">>,
       <<"u","n","i","v","e","r","s","i","t","e","i","t">>,
       <<"h","o","g","e","s","c","h","o","o","l">>,
       <<"i","n","s","t","i","t","u","u","t">>,
       <<"i","n","s","t","e","l","l","i","n","g">>
     >>],
    \* examen
    [key |-> <<"e","x","a","m","e","n">>,
     synonyms |-> <<
       <<"e","x","a","m","e","n","s">>,
       <<"t","e","n","t","a","m","e","n">>,
       <<"t","e","n","t","a","m","e","n","s">>,
       <<"t","o","e","t","s">>,
       <<"t","o","e","t","s","e","n">>,
       <<"t","e","s","t">>,
       <<"t","e","s","t","e","n">>
     >>]
  >>

\* keys the object literal inherits from Object.prototype and that survive
\* lower-casing and cleaning: synonymMap[key] is truthy but has no forEach
PrototypeKeys ==
  { <<"c","o","n","s","t","r","u","c","t","o","r">>,
    <<"_","_","p","r","o","t","o","_","_">> }

\* Set.prototype.add on an insertion-ordered set
Has(seq, t) == \E i \in 1..Len(seq) : seq[i] = t

AddTerm(acc, t) == IF Has(acc, t) THEN acc ELSE Append(acc, t)

\* ts.forEach(t => expandedTerms.add(t)): the new terms are appended in the
\* order of their first occurrence in ts
AddAll(acc, ts) ==
  LET firstNew == SelectSeq([j \in 1..Len(ts) |-> j],
                    LAMBDA j : /\ ~Has(acc, ts[j])
                               /\ \A i \in 1..(j - 1) : ts[i] # ts[j])
  IN acc \o [k \in 1..Len(firstNew) |-> ts[firstNew[k]]]

\* synonymMap[lowerTerm].forEach(synonym => expandedTerms.add(synonym))
AddDirectSynonyms(acc, lowerTerm) ==
  IF \E k \in 1..Len(synonymMap) : synonymMap[k].key = lowerTerm
    THEN AddAll(acc, synonymMap[CHOOSE k \in 1..Len(synonymMap) :
                                  synonymMap[k].key = lowerTerm].synonyms)
    ELSE acc

\* the entries from the k-th on whose synonyms include the term, in the
\* order of Object.entries
ListingEntries(lowerTerm, k) ==
  SelectSeq([j \in 1..Len(synonymMap) |-> j],
            LAMBDA j : j >= k /\ Has(synonymMap[j].synonyms, lowerTerm))

\* a reverse lookup that adds the key alone, without the key's synonyms
AddReverseSynonyms_KeyOnly(acc, lowerTerm, k) ==
  LET entries == ListingEntries(lowerTerm, k)
  IN AddAll(acc, [n \in 1..Len(entries) |-> synonymMap[entries[n]].key])

\* Object.entries(synonymMap).forEach: for every key that lists the term as
\* a synonym, the key and then its synonyms are added
AddReverseSynonyms(acc, lowerTerm, k) ==
  LET entries == ListingEntries(lowerTerm, k)
      RECURSIVE Added(_)
      Added(n) == IF n = 0 THEN acc
                  ELSE AddAll(AddTerm(Added(n - 1), synonymMap[entries[n]].key),
                              synonymMap[entries[n]].synonyms)
  IN Added(Len(entries))

\* plural / singular variations
AddVariations(acc, lowerTerm) ==
  IF endsWith(lowerTerm, <<"e","n">>) /\ Len(lowerTerm) > 3
    THEN AddTerm(acc, DropLast(lowerTerm, 2))
  ELSE IF endsWith(lowerTerm, <<"s">>) /\ Len(lowerTerm) > 2
    THEN AddTerm(acc, DropLast(lowerTerm, 1))
  ELSE AddTerm(AddTerm(acc, lowerTerm \o <<"e","n">>), lowerTerm \o <<"s">>)

\* word-stem variations
AddStems(acc, lowerTerm) ==
  IF Len(lowerTerm) > 4
    THEN AddAll(acc,
           SelectSeq(
             << StripSuffix(lowerTerm, <<"i","n","g">>),
                StripSuffix(lowerTerm, <<"t","i","e">>),
                StripSuffix(lowerTerm, <<"a","t","i","e">>),
                StripSuffix(lowerTerm, <<"e","r","e","n">>),
                StripSuffix(lowerTerm, <<"e","n">>) >>,
             LAMBDA stem : Len(stem) > 2 /\ stem # lowerTerm))
    ELSE acc

\* the body of terms.forEach for one term
ExpandOneTerm(acc, term) ==
  LET lowerTerm == toLowerCase(term) IN
  AddStems(
    AddVariations(
      AddReverseSynonyms(AddDirectSynonyms(acc, lowerTerm), lowerTerm, 1),
      lowerTerm),
    lowerTerm)

RECURSIVE ExpandFrom(_, _, _)
ExpandFrom(acc, terms, i) ==
  IF i > Len(terms) THEN acc
  ELSE ExpandFrom(ExpandOneTerm(acc, terms[i]), terms, i + 1)

\* expandSearchTerms throws a TypeError on an inherited key
ExpandThrows(terms) == \E i \in 1..Len(terms) : toLowerCase(terms[i]) \in PrototypeKeys

expandSearchTerms(terms) ==
  SelectSeq(ExpandFrom(AddAll(<<>>, terms), terms, 1), LAMBDA t : Len(t) > 1)

(***************************************************************************)
(* Relevance scoring (calculateRelevanceScore).                            *)
(***************************************************************************)
ScoreScale == 25          \* scores are integers in units of 1/25
ShortContent == 5000      \* content shorter than this gets the 1.2 bonus
LongContent == 50000      \* content longer than this gets the 0.8 penalty
NormalizeBy == 100        \* relevanceScore = min(score / 100, 1)

\* a document's content is its text followed by pad filler characters
\* (line breaks) in which no term occurs
ContentLength(content) == Len(content.text) + content.pad

\* a scorer that gives an exact file-name match no weight of its own
TermScore_NoExactNameWeight(lowerTerm, lowerFileName, lowerFilePath, lowerFileContent) ==
    CountMatches(lowerFilePath, lowerTerm, TRUE) * 10
  + CountMatches(lowerFileContent, lowerTerm, TRUE) * 3
  + CountMatches(lowerFileName, lowerTerm, FALSE) * 10
  + CountMatches(lowerFilePath, lowerTerm, FALSE) * 5
  + CountMatches(lowerFileContent, lowerTerm, FALSE) * 1

\* a scorer whose substring patterns skip the whole-word occurrences
TermScore_DisjointClasses(lowerTerm, lowerFileName, lowerFilePath, lowerFileContent) ==
    CountMatches(lowerFileName, lowerTerm, TRUE) * 20
  + CountMatches(lowerFilePath, lowerTerm, TRUE) * 10
  + CountMatches(lowerFileContent, lowerTerm, TRUE) * 3
  + (CountMatches(lowerFileName, lowerTerm, FALSE)
       - CountMatches(lowerFileName, lowerTerm, TRUE)) * 10
  + (CountMatches(lowerFilePath, lowerTerm, FALSE)
       - CountMatches(lowerFilePath, lowerTerm, TRUE)) * 5
  + (CountMatches(lowerFileContent, lowerTerm, FALSE)
       - CountMatches(lowerFileContent, lowerTerm, TRUE)) * 1

\* termScore of one term against the lower-cased name, path and content
TermScore(lowerTerm, lowerFileName, lowerFilePath, lowerFileContent) ==
    CountMatches(lowerFileName, lowerTerm, TRUE) * 20
  + CountMatches(lowerFilePath, lowerTerm, TRUE) * 10
  + CountMatches(lowerFileContent, lowerTerm, TRUE) * 3
  + CountMatches(lowerFileName, lowerTerm, FALSE) * 10
  + CountMatches(lowerFilePath, lowerTerm, FALSE) * 5
  + CountMatches(lowerFileContent, lowerTerm, FALSE) * 1

\* the multiplier for several matched terms, times 5
MultiTermBonus(found) == IF found > 1 THEN 5 + (found - 1) ELSE 5

\* a scorer without the bonus for short content
LengthBonus_None(len) == IF len > LongContent THEN 4 ELSE 5

\* the multiplier for the content length, times 5
LengthBonus(len) ==
  IF len < ShortContent THEN 6
  ELSE IF len > LongContent THEN 4
  ELSE 5

calculateRelevanceScore(searchTerms, fileName, filePath, fileContent) ==
  LET lowerFileName == toLowerCase(fileName)
      lowerFilePath == toLowerCase(filePath)
      lowerFileContent == toLowerCase(fileContent.text)
      termScore == [i \in 1..Len(searchTerms) |->
                      TermScore(toLowerCase(searchTerms[i]), lowerFileName,
                                lowerFilePath, lowerFileContent)]
      found == { i \in 1..Len(searchTerms) : termScore[i] > 0 }
      RECURSIVE Matches(_)
      Matches(i) == IF i > Len(searchTerms) THEN <<>>
                    ELSE IF i \in found THEN <<searchTerms[i]>> \o Matches(i + 1)
                    ELSE Matches(i + 1)
      RECURSIVE Sum(_)
      Sum(i) == IF i = 0 THEN 0 ELSE termScore[i] + Sum(i - 1)
      totalScore == Sum(Len(termScore))
  IN [ score |-> totalScore * MultiTermBonus(Cardinality(found))
                            * LengthBonus(ContentLength(fileContent)),
       matches |-> Matches(1) ]

(***************************************************************************)
(* The search handler (POST).                                              *)
(***************************************************************************)
DefaultMaxResults == 15

\* results.sort((a, b) => b.relevanceScore - a.relevanceScore): a stable
\* sort, an element goes behind every element that does not compare lower
\* an insertion that puts an element in front of its equals
RECURSIVE InsertByScore_BeforeEqual(_, _)
InsertByScore_BeforeEqual(sorted, r) ==
  IF sorted = <<>> THEN <<r>>
  ELSE IF Head(sorted).relevanceScore > r.relevanceScore
    THEN <<Head(sorted)>> \o InsertByScore_BeforeEqual(Tail(sorted), r)
    ELSE <<r>> \o sorted

RECURSIVE InsertByScore(_, _)
InsertByScore(sorted, r) ==
  IF sorted = <<>> THEN <<r>>
  ELSE IF Head(sorted).relevanceScore >= r.relevanceScore
    THEN <<Head(sorted)>> \o InsertByScore(Tail(sorted), r)
    ELSE <<r>> \o sorted

\* the handler without its sort
SortByScore_Unsorted(results) == results

RECURSIVE SortByScore(_)
SortByScore(results) ==
  IF results = <<>> THEN <<>>
  ELSE InsertByScore(SortByScore(DropLast(results, 1)), results[Len(results)])

\* a truncation that keeps one element too many
SliceTo_OneMore(arr, end) ==
  LET k == IF end < 0 THEN (IF Len(arr) + end < 0 THEN 0 ELSE Len(arr) + end)
           ELSE IF end + 1 > Len(arr) THEN Len(arr) ELSE end + 1
  IN SubSeq(arr, 1, k)

\* Array.prototype.slice(0, end)
SliceTo(arr, end) ==
  LET k == IF end < 0 THEN (IF Len(arr) + end < 0 THEN 0 ELSE Len(arr) + end)
           ELSE IF end > Len(arr) THEN Len(arr) ELSE end
  IN SubSeq(arr, 1, k)

\* Math.min(score / 100, 1), in units of 1/(25 * 100)
NormalizedScore(score) ==
  IF score > ScoreScale * NormalizeBy THEN ScoreScale * NormalizeBy ELSE score

\* relevanceData of every file of the request, in input order
RelevanceOf(expandedTerms, files) ==
  [i \in 1..Len(files) |->
     calculateRelevanceScore(expandedTerms, files[i].name,
                             files[i].path, files[i].content)]

\* a loop that keeps every file, whatever its score
CollectResults_AllFiles(files, relevance, i) ==
  [ k \in 1..(Len(files) - i + 1) |->
      [ file |-> files[i + k - 1], input |-> i + k - 1,
        relevanceScore |-> NormalizedScore(relevance[i + k - 1].score) ] ]

\* the results array before sorting: the files with score > 0
RECURSIVE CollectResults(_, _, _)
CollectResults(files, relevance, i) ==
  IF i > Len(relevance) THEN <<>>
  ELSE IF relevance[i].score > 0
    THEN << [ file |-> files[i], input |-> i,
              relevanceScore |-> NormalizedScore(relevance[i].score) ] >>
         \o CollectResults(files, relevance, i + 1)
    ELSE CollectResults(files, relevance, i + 1)

ErrorResponse(code) ==
  [ status |-> code, success |-> FALSE, results |-> <<>>, totalFound |-> 0,
    searchTerms |-> <<>>, expandedTerms |-> <<>> ]

\* the success response for the sorted results
SearchResponse(originalTerms, expandedTerms, results, maxResults) ==
  [ status |-> 200, success |-> TRUE,
    results |-> SliceTo(results, maxResults),
    totalFound |-> Len(results),
    searchTerms |-> originalTerms,
    expandedTerms |-> expandedTerms ]

\* the loop over the files, the sort and the truncation
SearchFiles(body, originalTerms, expandedTerms, relevance) ==
  [ relevance |-> relevance,
    response |-> SearchResponse(originalTerms, expandedTerms,
                   SortByScore(CollectResults(body.fileIndex, relevance, 1)),
                   IF body.hasMaxResults THEN body.maxResults
                   ELSE DefaultMaxResults) ]

\* expansion of the cleaned terms; a throw ends in the catch block
SearchTerms(body, originalTerms, expandedTerms) ==
  SearchFiles(body, originalTerms, expandedTerms,
              RelevanceOf(expandedTerms, body.fileIndex))

\* the handler's work on one request body: validation, preprocessing,
\* expansion, scoring of every file, sort, truncation
HandleSearch(body) ==
  IF body.query = <<>> \/ ~body.hasFileIndex
    THEN [relevance |-> <<>>, response |-> ErrorResponse(400)]
  ELSE IF ExpandThrows(OriginalTerms(body.query))
    THEN [relevance |-> <<>>, response |-> ErrorResponse(500)]
  ELSE SearchTerms(body, OriginalTerms(body.query),
                   expandSearchTerms(OriginalTerms(body.query)))

\* POST /api/search: the whole handler as one step
SearchPOST ==
  /\ sPc = "request"
  /\ sPc' = "responded"
  /\ \E out \in {HandleSearch(sRequest)} :
       /\ sRelevance' = out.relevance
       /\ sResponse' = out.response
  /\ UNCHANGED <<sRequest, ctVars, ixVars, auxVars>>

(***************************************************************************)
(* Inputs of the search specifications.                                    *)
(***************************************************************************)
NoResponse ==
  [ status |-> 0, success |-> FALSE, results |-> <<>>, totalFound |-> 0,
    searchTerms |-> <<>>, expandedTerms |-> <<>> ]

Text(t) == [text |-> t, pad |-> 0]

RubriekName ==
  <<"e","v","a","l","u","a","t","i","e","_","r","u","b","r","i","e","k",".","t","x","t">>
RubriekContent ==
  Text(<<"D","i","t"," ","d","o","c","u","m","e","n","t"," ","b","e","s","c","h","r","i","j","f","t"," ","d","e"," ","r","u","b","r","i","e","k"," ","v","o","o","r"," ","b","e","o","o","r","d","e","l","i","n","g",".">>)

\* the document of the rubrieken scenario, under a path without any term
RubriekDoc == [name |-> RubriekName, path |-> <<"/","1">>, content |-> RubriekContent]
\* the same document stored at the root of the account
RubriekDocAtRoot == [name |-> RubriekName, path |-> <<"/">> \o RubriekName, content |-> RubriekContent]

AbDoc == [name |-> <<"a","b",".","t","x","t">>, path |-> <<"/","a","b",".","t","x","t">>,
          content |-> Text(<<"a","b">>)]
XabDoc == [name |-> <<"x","a","b">>, path |-> <<"/","1">>, content |-> Text(<<>>)]
NoMatchDoc == [name |-> <<"z","z">>, path |-> <<"/","z","z">>,
               content |-> [text |-> <<"z","z">>, pad |-> 60000]]

AbsDoc == [name |-> <<"A","b","s"," ","a","b">>, path |-> <<"/","1">>,
           content |-> Text(<<"a","b","s">>)]

\* a document that scores like XabDoc
YabDoc == [name |-> <<"y","a","b">>, path |-> <<"/","2">>, content |-> Text(<<>>)]

SearchDocs == {AbDoc, XabDoc, YabDoc, AbsDoc, NoMatchDoc}
RubriekDocs == {RubriekDoc, RubriekDocAtRoot}

RubriekenQuery == <<"r","u","b","r","i","e","k","e","n">>
StopCharQuery == <<"?","?"," "," ",".","."," "," ">>

BracketQuery == <<"(","("," ","?","?">>

\* a synonym that the table lists under two keys (evaluatie and examen)
ToetsQuery == <<"t","o","e","t","s">>

SearchQueries ==
  { RubriekenQuery,
    BracketQuery,
    ToetsQuery,
    <<"a","b">>,
    <<"A","B",","," ","a","b","s","!">>,
    StopCharQuery,
    <<>>,
    <<"c","o","n","s","t","r","u","c","t","o","r">> }

\* all sequences over S of length at most n
RECURSIVE SeqsUpTo(_, _)
SeqsUpTo(S, n) ==
  IF n = 0 THEN {<<>>}
  ELSE LET shorter == SeqsUpTo(S, n - 1)
       IN shorter \cup { Append(q, x) : q \in shorter, x \in S }

\* the collections sent with a request: small documents in any order, and
\* the documents of the rubrieken scenario next to one other document
SearchIndexes ==
  SeqsUpTo(SearchDocs, MaxDocs)
  \cup { <<d>> : d \in RubriekDocs }
  \cup { <<NoMatchDoc, d>> : d \in RubriekDocs }

SearchRequests ==
  { [ query |-> q, hasFileIndex |-> TRUE, fileIndex |-> f,
      hasMaxResults |-> TRUE, maxResults |-> m ] :
      q \in SearchQueries, f \in SearchIndexes, m \in (-1)..MaxResultsBound }
  \cup
  { [ query |-> q, hasFileIndex |-> TRUE, fileIndex |-> f,
      hasMaxResults |-> FALSE, maxResults |-> 0 ] :
      q \in SearchQueries, f \in SearchIndexes }
  \cup
  { [ query |-> q, hasFileIndex |-> FALSE, fileIndex |-> <<>>,
      hasMaxResults |-> FALSE, maxResults |-> 0 ] : q \in SearchQueries }

\* file names composed of at most n words
ScoreWords == { <<"a","b">>, <<"A","b","s">>, <<"x","a","b">> }
ScoreSeparators == {" ", "_"}

\* the words joined by one separator
RECURSIVE JoinWords(_, _)
JoinWords(words, sep) ==
  IF Len(words) = 1 THEN Head(words)
  ELSE Head(words) \o <<sep>> \o JoinWords(Tail(words), sep)

NamesOf(n) ==
  { JoinWords(words, sep) : words \in SeqsUpTo(ScoreWords, n) \ {<<>>},
                            sep \in ScoreSeparators }

ScoreQueries == { <<"a","b">>, <<"a","b","s"," ","A","b">> }
\* the path and content the two documents share
ScoreContexts ==
  { [path |-> <<"/","1">>, content |-> Text(<<>>)],
    [path |-> <<"/","a","b">>, content |-> Text(<<"a","b"," ","x","a","b">>)],
    [path |-> <<"/","1">>, content |-> [text |-> <<"a","b">>, pad |-> 60000]] }

\* two documents that differ in the file name only
ScoreRequest(q, a, b, c) ==
  [ query |-> q, hasFileIndex |-> TRUE,
    fileIndex |-> << [name |-> a, path |-> c.path, content |-> c.content],
                     [name |-> b, path |-> c.path, content |-> c.content] >>,
    hasMaxResults |-> FALSE, maxResults |-> 0 ]

(***************************************************************************)
(* The content endpoint: POST and ultimatePdfTextExtraction.               *)
(***************************************************************************)
\* Error messages; Contains lists which of the substrings the handler
\* looks for occur in which message
MsgEmpty == "PDF bestand is leeg"
MsgNoHeader == "Bestand is geen geldig PDF formaat"
MsgAllFailed == "ALLE ULTIEME PDF EXTRACTIE STRATEGIEEN FAALDEN: gescand document, versleuteld, OCR vereist"
MsgBufferType == "TypeError: the first argument must be a string, Buffer, ArrayBuffer or Array"
MsgBadJson == "SyntaxError: unexpected token in JSON"
MsgDownload == "Failed to download PDF from Dropbox"
MsgDropboxSummary == "path/not_found/"
MsgDropboxMessage == "request to https://content.dropboxapi.com failed"

Contains(message, needle) == <<message, needle>> \in { <<MsgAllFailed, "gescand document">> }

\* errorMessage of the catch block around ultimatePdfTextExtraction
ErrorMessageOf(message) ==
  IF Contains(message, "Invalid PDF") \/ Contains(message, "not a valid")
    THEN "Ongeldig PDF formaat"
  ELSE IF Contains(message, "encrypted") \/ Contains(message, "password")
    THEN "PDF is beveiligd met een wachtwoord"
  ELSE IF Contains(message, "corrupted")
    THEN "PDF bestand is beschadigd"
  ELSE IF Contains(message, "gescand document")
    THEN "Gescand document - OCR vereist"
  ELSE message

\* content strings: what kind of text it is, the message it embeds, its
\* length in characters
NoContent == [kind |-> "none", detail |-> "", chars |-> 0]
Extracted(n) == [kind |-> "extracted", detail |-> "", chars |-> n]
\* extracted text that hasEducationalContent rejects
Unreadable(n) == [kind |-> "unreadable", detail |-> "", chars |-> n]
Diagnostic(k, message) == [kind |-> k, detail |-> message, chars |-> 600]

NoExtract == [content |-> NoContent, method |-> "unknown", success |-> FALSE]

\* the state of content, extractionMethod and extractionSuccess after the
\* catch block around ultimatePdfTextExtraction
PdfErrorFallback(message) ==
  [ content |-> Diagnostic("pdf-error-fallback", ErrorMessageOf(message)),
    method |-> "ultimate-pdf-error-fallback", success |-> FALSE ]

NoContentResponse ==
  [ status |-> 0, success |-> FALSE, hasContent |-> FALSE, content |-> NoContent,
    extractionMethod |-> "none", hasExtractionSuccess |-> FALSE,
    extractionSuccess |-> FALSE ]

\* the 400 response of the request validation
ValidationResponse ==
  [ NoContentResponse EXCEPT !.status = 400 ]

\* a response whose success flag follows the extraction
ContentResponse_SuccessFollowsExtraction(content, method, ok) ==
  [ status |-> 200, success |-> ok, hasContent |-> TRUE, content |-> content,
    extractionMethod |-> method, hasExtractionSuccess |-> TRUE,
    extractionSuccess |-> ok ]

\* a response that carries content
ContentResponse(content, method, ok) ==
  [ status |-> 200, success |-> TRUE, hasContent |-> TRUE, content |-> content,
    extractionMethod |-> method, hasExtractionSuccess |-> TRUE,
    extractionSuccess |-> ok ]

ContentRequests ==
  [ jsonOk : BOOLEAN, hasAccessToken : BOOLEAN, hasFilePath : BOOLEAN,
    fileType : {"text", "pdf", "docx", "image", "other"} ]

\* what one extraction step can come to: an exception, too little text, text
\* the readability gate rejects, text it accepts
StepOutcomes == {"throws", "short", "rejected", "accepted"}

\* lengths of extracted text, short of and beyond the truncation ceiling
TruncateAt == 120000
ExtractedSizes == {60, 130000}
\* raw scanning needs more cleaned characters than this
RawScanMinimum == 100

StrategyMethod(step) ==
  CASE step = 1 -> "ultimate-pdf-parse-config-1"
    [] step = 2 -> "ultimate-pdf-parse-config-2"
    [] step = 3 -> "ultimate-pdf-parse-config-3"
    [] step = 4 -> "ultimate-pdf-parse-config-4"
    [] step = 5 -> "ultimate-stream-extraction"
    [] step = 6 -> "ultimate-object-extraction"
    [] step = 7 -> "ultimate-frequency-analysis"
    [] step = 8 -> "ultimate-brute-force"
    [] OTHER -> "ultimate-raw-scanning"

\* the substring caps of the strategies (pdf-parse has none)
StrategyCap(step) ==
  CASE step = 5 -> 80000
    [] step = 6 -> 70000
    [] step = 7 -> 60000
    [] step = 8 -> 50000
    [] step = 9 -> 40000
    [] OTHER -> 1000000

Min(a, b) == IF a < b THEN a ELSE b

ContentRespond(response) ==
  /\ cPc' = "responded"
  /\ cResponse' = response

\* a buffer check that forgets the empty buffer
BufferError_NoEmptyCheck(blob) ==
  CASE blob = "undefined" -> MsgBufferType
    [] blob = "empty" -> MsgNoHeader
    [] blob = "notPdf" -> MsgNoHeader
    [] OTHER -> ""

\* the exception of the buffer conversion and validation, "" when the
\* buffer is a PDF
BufferError(blob) ==
  CASE blob = "undefined" -> MsgBufferType
    [] blob = "empty" -> MsgEmpty
    [] blob = "notPdf" -> MsgNoHeader
    [] OTHER -> ""

\* the handler up to the first extraction step: parsing of the body,
\* validation, download, buffer conversion and validation
ContentReceive ==
  /\ cPc = "request"
  /\ UNCHANGED <<cRequest, cPdfParseInitialized, cStep, srchVars, ixVars, auxVars>>
  /\ IF ~cRequest.jsonOk
       THEN \* request.json() throws: the outer catch block
            /\ ContentRespond(ContentResponse(Diagnostic("api-error", MsgBadJson),
                                "ultimate-api-error-fallback", FALSE))
            /\ UNCHANGED <<cBlob, cExtract>>
     ELSE IF ~cRequest.hasAccessToken \/ ~cRequest.hasFilePath
       THEN ContentRespond(ValidationResponse) /\ UNCHANGED <<cBlob, cExtract>>
     ELSE IF cRequest.fileType # "pdf"
       THEN ContentRespond(ValidationResponse) /\ UNCHANGED <<cBlob, cExtract>>
     ELSE
       \/ \* filesDownload rejects
          \E message \in {MsgDownload, MsgDropboxSummary, MsgDropboxMessage} :
            /\ ContentRespond(ContentResponse(Diagnostic("download-error", message),
                                "dropbox-download-error-fallback", FALSE))
            /\ UNCHANGED <<cBlob, cExtract>>
       \/ \* filesDownload resolves
          \E blob \in {"undefined", "empty", "notPdf", "pdf"} :
            /\ cBlob' = blob
            /\ IF BufferError(blob) # ""
                 THEN /\ cExtract' = PdfErrorFallback(BufferError(blob))
                      /\ cPc' = "post"
                 ELSE /\ cExtract' = NoExtract
                      /\ cPc' = "strategy"
            /\ UNCHANGED cResponse

\* a step whose text the gate accepted returns; any other outcome goes on
StrategyResult(step, outcome, size) ==
  IF outcome = "accepted"
    THEN [ next |-> "post",
           extract |-> [ content |-> Extracted(Min(size, StrategyCap(step))),
                         method |-> StrategyMethod(step), success |-> TRUE ] ]
    ELSE [ next |-> "strategy", extract |-> NoExtract ]

\* strategy 1: pdf-parse, one configuration per step; initializePdfParse
\* imports the library once and leaves the strategy out when that fails
TryPdfParse ==
  /\ cPc = "strategy"
  /\ cStep \in 1..4
  /\ UNCHANGED <<cRequest, cBlob, cResponse, srchVars, ixVars, auxVars>>
  /\ \E importOk \in BOOLEAN :
       IF ~cPdfParseInitialized /\ ~importOk
         THEN /\ cStep' = 5
              /\ UNCHANGED <<cPdfParseInitialized, cExtract, cPc>>
         ELSE /\ cPdfParseInitialized' = TRUE
              /\ \E outcome \in StepOutcomes, size \in ExtractedSizes :
                   /\ cPc' = StrategyResult(cStep, outcome, size).next
                   /\ cExtract' = StrategyResult(cStep, outcome, size).extract
                   /\ cStep' = IF outcome = "accepted" THEN cStep ELSE cStep + 1

\* strategies 2..5: stream, object, frequency and brute-force extraction
TryExtraction ==
  /\ cPc = "strategy"
  /\ cStep \in 5..8
  /\ UNCHANGED <<cRequest, cBlob, cResponse, cPdfParseInitialized, srchVars, ixVars, auxVars>>
  /\ \E outcome \in StepOutcomes, size \in ExtractedSizes :
       /\ cPc' = StrategyResult(cStep, outcome, size).next
       /\ cExtract' = StrategyResult(cStep, outcome, size).extract
       /\ cStep' = IF outcome = "accepted" THEN cStep ELSE cStep + 1

\* strategy 6: raw text scanning, accepted when the cleaned matches are
\* longer than 100 characters, without a call of hasEducationalContent; when
\* it fails too the function throws and the handler's catch block builds
\* the fallback
TryRawScanning ==
  /\ cPc = "strategy"
  /\ cStep = 9
  /\ UNCHANGED <<cRequest, cBlob, cResponse, cPdfParseInitialized, srchVars, ixVars, auxVars>>
  /\ cPc' = "post"
  /\ \E found \in {"noMatch", "short", "long"} :
       IF found = "long"
         THEN /\ \E size \in { n \in ExtractedSizes : n > RawScanMinimum },
                    readable \in BOOLEAN :
                   cExtract' = [ content |-> IF readable
                                               THEN Extracted(Min(size, StrategyCap(9)))
                                               ELSE Unreadable(Min(size, StrategyCap(9))),
                                 method |-> StrategyMethod(9), success |-> TRUE ]
              /\ cStep' = cStep
         ELSE /\ cExtract' = PdfErrorFallback(MsgAllFailed)
              /\ cStep' = cStep + 1

\* cleanup, truncation, quality indicator, last fallback and the response
ContentPostProcess ==
  /\ cPc = "post"
  /\ UNCHANGED <<cRequest, cBlob, cStep, cPdfParseInitialized, cExtract, srchVars, ixVars, auxVars>>
  /\ LET content == cExtract.content
         truncated == IF content.chars > TruncateAt
                        THEN [content EXCEPT !.chars = TruncateAt + 110]
                        ELSE content
         marked == IF cExtract.success
                     THEN [truncated EXCEPT !.chars = @ + 120]
                     ELSE truncated
     IN IF marked.chars < 10
          THEN ContentRespond(ContentResponse(Diagnostic("no-readable-text", ""),
                                cExtract.method, FALSE))
          ELSE ContentRespond(ContentResponse(marked, cExtract.method,
                                cExtract.success))

(***************************************************************************)
(* The indexing loop: FileIndexer.startIndexing and its callers.           *)
(***************************************************************************)
batchSize == 2
maxRetries == 3
SizeLimit == 50 * 1024 * 1024

\* the files of the storage account: name, path_display, size and
\* server_modified of the listing (the id follows the path)
StorageFile(n, s, m) ==
  [name |-> n, path |-> "/" \o n, size |-> s, server_modified |-> m]

\* the listings /api/dropbox/files can return: every file is absent or listed
\* with one of its timestamps; c.zip has a skipped extension, d.pdf is
\* larger than the size limit, a.pdf has 20 MB
RECURSIVE Concat(_)
Concat(parts) == IF parts = <<>> THEN <<>> ELSE Head(parts) \o Concat(Tail(parts))

Listings ==
  { Concat(<<b, c, a, d>>) :
      b \in {<<>>} \cup { <<StorageFile("b.txt", 2048, m)>> : m \in 1..MaxModified },
      c \in {<<>>, <<StorageFile("c.zip", 1024, 1)>>},
      a \in {<<>>} \cup { <<StorageFile("a.pdf", 20 * 1024 * 1024, m)>> : m \in 1..MaxModified },
      d \in {<<>>, <<StorageFile("d.pdf", 60 * 1024 * 1024, 1)>>} }

\* getFileType: the type from the extension
getFileType(name) ==
  CASE name \in {"a.pdf", "d.pdf"} -> "pdf"
    [] name = "b.txt" -> "text"
    [] OTHER -> "other"

\* the file name ends with one of skipExtensions
HasSkipExtension(name) == name = "c.zip"

\* an entry of the index (FileIndex): the storage metadata and the content;
\* the content is "extracted" text, the endpoint's "placeholder" for a failed
\* extraction, or the loop's own "http-error" / "processing-error" text
IndexEntry(file, contentKind) ==
  [ name |-> file.name, path |-> file.path, size |-> file.size,
    modified |-> file.server_modified, type |-> getFileType(file.name),
    content |-> contentKind ]

\* the index a session starts with (reloaded from localStorage)
InitialIndexes ==
  { <<>>,
    <<IndexEntry(StorageFile("a.pdf", 20 * 1024 * 1024, 1), "extracted")>>,
    <<IndexEntry(StorageFile("b.txt", 2048, 1), "http-error"),
      IndexEntry(StorageFile("a.pdf", 20 * 1024 * 1024, 1), "extracted")>> }

\* what the content endpoint answers for a file type: only PDF requests pass
\* its validation; every status-200 answer has success = true and content
ContentAnswers(fileType) ==
  IF fileType = "pdf"
    THEN { [ok |-> TRUE, success |-> TRUE, hasContent |-> TRUE, extractionSuccess |-> TRUE],
           [ok |-> TRUE, success |-> TRUE, hasContent |-> TRUE, extractionSuccess |-> FALSE],
           [ok |-> FALSE, success |-> FALSE, hasContent |-> FALSE, extractionSuccess |-> FALSE] }
    ELSE { [ok |-> FALSE, success |-> FALSE, hasContent |-> FALSE, extractionSuccess |-> FALSE] }

PathIndex(index, path) ==
  IF \E k \in 1..Len(index) : index[k].path = path
    THEN CHOOSE k \in 1..Len(index) :
           index[k].path = path /\ \A j \in 1..(k - 1) : index[j].path # path
    ELSE 0

\* existingFileMap.get(path): the last entry with that path
ExistingFor(index, path) ==
  index[CHOOSE k \in 1..Len(index) :
          index[k].path = path /\ \A j \in (k + 1)..Len(index) : index[j].path # path]

\* a run that processes every listed file again
NeedsProcessing_Always(index, file) == TRUE

\* the filter for new and changed files
NeedsProcessing(index, file) ==
  \/ PathIndex(index, file.path) = 0
  \/ file.server_modified > ExistingFor(index, file.path).modified

\* handleIndexComplete of the parent: state and localStorage
OnIndexComplete(index) ==
  /\ appFileIndex' = index
  /\ storedIndex' = <<index>>

\* the finally block of startIndexing
RunFinally(status) ==
  /\ isIndexing' = FALSE
  /\ abortController' = "null"
  /\ runPc' = "idle"
  /\ indexingStatus' = status

\* startIndexing up to the request for the file listing
BeginRun(reset) ==
  /\ isIndexing' = TRUE
  /\ abortController' = "live"
  /\ runPc' = "listing"
  /\ runs' = runs + 1
  /\ resetFromZero' = reset
  /\ existingIndex' = appFileIndex
  /\ indexingStatus' = "running"
  /\ processingDetails' = {}
  /\ filesToProcess' = <<>>
  /\ fileIndex' = <<>>
  /\ batchStart' = 0
  /\ processed' = 0
  /\ tasks' = <<>>
  /\ UNCHANGED <<indexingProgress, authenticated, srchVars, ctVars, auxVars>>

\* the Update Index button, or "Slimme Update" in the reset dialog
StartUpdate ==
  /\ authenticated
  /\ ~isIndexing /\ runPc = "idle" /\ runs < MaxRuns
  /\ BeginRun(FALSE)
  /\ UNCHANGED <<appFileIndex, storedIndex>>

\* the Volledige Reset button: handleResetClick starts a run from zero when
\* the index is empty, else handleResetChoice(true) clears the index first
StartReset ==
  /\ authenticated
  /\ ~isIndexing /\ runPc = "idle" /\ runs < MaxRuns
  /\ BeginRun(TRUE)
  /\ IF Len(appFileIndex) > 0
       THEN appFileIndex' = <<>> /\ storedIndex' = <<>>
       ELSE UNCHANGED <<appFileIndex, storedIndex>>

\* stopIndexing: the Stop button shown while isIndexing
stopIndexing ==
  /\ authenticated
  /\ isIndexing
  /\ abortController = "live"
  /\ abortController' = "aborted"
  /\ UNCHANGED <<appFileIndex, storedIndex, isIndexing, indexingProgress, runPc,
                 runs, resetFromZero, existingIndex, filesToProcess, fileIndex,
                 batchStart, processed, tasks, indexingStatus, processingDetails,
                 authenticated, srchVars, ctVars, auxVars>>

\* handleLogout of the parent: the Uitloggen button, which is shown also
\* while a run is in flight; the indexer is unmounted, the promise of its
\* run goes on
handleLogout ==
  /\ authenticated
  /\ authenticated' = FALSE
  /\ appFileIndex' = <<>>
  /\ storedIndex' = <<>>
  /\ UNCHANGED <<isIndexing, indexingProgress, runPc, runs, resetFromZero,
                 existingIndex, abortController, filesToProcess, fileIndex,
                 batchStart, processed, tasks, indexingStatus, processingDetails,
                 srchVars, ctVars, auxVars>>

\* the listing arrives (or fails): the files to process are chosen
ListFiles ==
  /\ runPc = "listing"
  /\ UNCHANGED <<runs, resetFromZero, existingIndex, batchStart, processed, tasks,
                 processingDetails, authenticated, srchVars, ctVars, auxVars>>
  /\ IF abortController = "aborted"
       THEN \* fetch rejects with an AbortError
            /\ RunFinally("cancelled")
            /\ UNCHANGED <<appFileIndex, storedIndex, indexingProgress,
                           filesToProcess, fileIndex>>
       ELSE
         \/ \* the response is not ok
            /\ RunFinally("error")
            /\ UNCHANGED <<appFileIndex, storedIndex, indexingProgress,
                           filesToProcess, fileIndex>>
         \/ \E allFiles \in Listings :
              LET selected ==
                    IF ~resetFromZero /\ Len(existingIndex) > 0
                      THEN SelectSeq(allFiles,
                             LAMBDA f : NeedsProcessing(existingIndex, f))
                      ELSE allFiles
              IN /\ filesToProcess' = selected
                 /\ fileIndex' = IF resetFromZero THEN <<>> ELSE existingIndex
                 /\ indexingProgress' = [current |-> 0, total |-> Len(allFiles)]
                 /\ IF Len(selected) = 0
                      THEN /\ OnIndexComplete(existingIndex)
                           /\ RunFinally("up-to-date")
                      ELSE /\ runPc' = "loop"
                           /\ UNCHANGED <<appFileIndex, storedIndex, isIndexing,
                                          abortController, indexingStatus>>

NoResult == <<>>

\* the part of a file's promise that runs before its first await
StartTask(file) ==
  IF file.size > SizeLimit \/ HasSkipExtension(file.name)
    THEN [file |-> file, pc |-> "done", retryCount |-> 0, result |-> NoResult]
    ELSE [file |-> file, pc |-> "fetch", retryCount |-> 0, result |-> NoResult]

StartDetails(batch) ==
  { [kind |-> IF batch[k].size > SizeLimit THEN "skipped-size"
              ELSE IF HasSkipExtension(batch[k].name) THEN "skipped-binary"
              ELSE "processing",
     name |-> batch[k].name] : k \in 1..Len(batch) }

\* the head of the batch loop: the cancellation check, then the promises of
\* the next batch are created
BatchBegin ==
  /\ runPc = "loop"
  /\ UNCHANGED <<appFileIndex, storedIndex, indexingProgress, runs, resetFromZero,
                 existingIndex, filesToProcess, fileIndex, batchStart, processed,
                 authenticated, srchVars, ctVars, auxVars>>
  /\ IF abortController = "aborted"
       THEN \* throw new Error('Indexering geannuleerd')
            /\ RunFinally("cancelled")
            /\ UNCHANGED <<tasks, processingDetails>>
       ELSE LET batch == SubSeq(filesToProcess, batchStart + 1,
                                Min(batchStart + batchSize, Len(filesToProcess)))
            IN /\ tasks' = [k \in 1..Len(batch) |-> StartTask(batch[k])]
               /\ processingDetails' = processingDetails \cup StartDetails(batch)
               /\ runPc' = "batch"
               /\ UNCHANGED <<isIndexing, abortController, indexingStatus>>

\* the entry for a response that is not ok
HttpErrorResult_Skipped(file) == NoResult

HttpErrorResult(file) == <<IndexEntry(file, "http-error")>>

\* the entry of the catch block of a file's promise
ProcessingErrorResult(file) == <<IndexEntry(file, "processing-error")>>

TaskDone(k, result, detail) ==
  /\ tasks' = [tasks EXCEPT ![k].pc = "done", ![k].retryCount = 0,
                             ![k].result = result]
  /\ processingDetails' = processingDetails \cup {[kind |-> detail, name |-> tasks[k].file.name]}

\* the fetch of a file's content settles: a rejection goes to the retry
\* loop, a response is turned into the file's result
TaskFetch(k) ==
  /\ runPc = "batch"
  /\ k \in 1..Len(tasks)
  /\ tasks[k].pc = "fetch"
  /\ UNCHANGED <<appFileIndex, storedIndex, isIndexing, indexingProgress, runPc,
                 runs, resetFromZero, existingIndex, abortController,
                 filesToProcess, batchStart, processed, indexingStatus,
                 authenticated, srchVars, ctVars, auxVars>>
  /\ LET file == tasks[k].file
         rejected ==
           IF tasks[k].retryCount + 1 > maxRetries
             THEN /\ TaskDone(k, ProcessingErrorResult(file), "error")
                  /\ UNCHANGED fileIndex
             ELSE /\ tasks' = [tasks EXCEPT ![k].pc = "backoff",
                                            ![k].retryCount = @ + 1]
                  /\ UNCHANGED <<fileIndex, processingDetails>>
     IN \/ \* fetch rejects: network failure, or the signal is aborted
           rejected
        \/ /\ abortController # "aborted"
           /\ \E answer \in ContentAnswers(getFileType(file.name)) :
                IF ~answer.ok
                  THEN /\ TaskDone(k, HttpErrorResult(file), "http-error")
                       /\ UNCHANGED fileIndex
                ELSE IF answer.success /\ answer.hasContent
                  THEN LET newFileIndex ==
                             IndexEntry(file, IF answer.extractionSuccess
                                                THEN "extracted" ELSE "placeholder")
                           at == PathIndex(fileIndex, file.path)
                       IN IF ~resetFromZero /\ at # 0
                            THEN /\ fileIndex' = [fileIndex EXCEPT ![at] = newFileIndex]
                                 /\ TaskDone(k, NoResult, "indexed")
                            ELSE /\ TaskDone(k, <<newFileIndex>>, "indexed")
                                 /\ UNCHANGED fileIndex
                ELSE /\ TaskDone(k, NoResult, "no-content")
                     /\ UNCHANGED fileIndex
        \/ \* contentResponse.json() rejects
           /\ abortController # "aborted"
           /\ getFileType(file.name) = "pdf"
           /\ TaskDone(k, ProcessingErrorResult(file), "error")
           /\ UNCHANGED fileIndex

\* the milliseconds waited after the failed attempt number retryCount
BackoffDelay(retryCount) == 1000 * retryCount

\* the wait before the next attempt is over
TaskBackoff(k) ==
  /\ runPc = "batch"
  /\ k \in 1..Len(tasks)
  /\ tasks[k].pc = "backoff"
  /\ tasks' = [tasks EXCEPT ![k].pc = "fetch"]
  /\ UNCHANGED <<appFileIndex, storedIndex, isIndexing, indexingProgress, runPc,
                 runs, resetFromZero, existingIndex, abortController,
                 filesToProcess, fileIndex, batchStart, processed,
                 indexingStatus, processingDetails, authenticated, srchVars, ctVars, auxVars>>

RECURSIVE Results(_)
Results(ts) == IF ts = <<>> THEN <<>> ELSE Head(ts).result \o Results(Tail(ts))

\* a loop that goes on as soon as one promise of the batch has settled
BatchEnd_Race ==
  /\ runPc = "batch"
  /\ \E k \in 1..Len(tasks) : tasks[k].pc = "done"
  /\ fileIndex' = fileIndex \o Results(tasks)
  /\ processed' = processed + Len(tasks)
  /\ indexingProgress' = [current |-> processed + Len(tasks),
                          total |-> Len(filesToProcess)]
  /\ runPc' = "delay"
  /\ UNCHANGED <<appFileIndex, storedIndex, isIndexing, runs, resetFromZero,
                 existingIndex, abortController, filesToProcess, batchStart,
                 tasks, indexingStatus, processingDetails, authenticated, srchVars, ctVars, auxVars>>

\* Promise.all resolves: the results are added, progress is reported
BatchEnd ==
  /\ runPc = "batch"
  /\ \A k \in 1..Len(tasks) : tasks[k].pc = "done"
  /\ fileIndex' = fileIndex \o Results(tasks)
  /\ processed' = processed + Len(tasks)
  /\ indexingProgress' = [current |-> processed + Len(tasks),
                          total |-> Len(filesToProcess)]
  /\ runPc' = "delay"
  /\ UNCHANGED <<appFileIndex, storedIndex, isIndexing, runs, resetFromZero,
                 existingIndex, abortController, filesToProcess, batchStart,
                 tasks, indexingStatus, processingDetails, authenticated, srchVars, ctVars, auxVars>>

\* the delay between batches is over: the loop goes on, or the run completes
\* and hands its index to the parent
DelayEnd ==
  /\ runPc = "delay"
  /\ batchStart' = batchStart + batchSize
  /\ UNCHANGED <<indexingProgress, runs, resetFromZero, existingIndex,
                 filesToProcess, fileIndex, processed, tasks,
                 processingDetails, authenticated, srchVars, ctVars, auxVars>>
  /\ IF batchStart + batchSize < Len(filesToProcess)
       THEN /\ runPc' = "loop"
            /\ UNCHANGED <<appFileIndex, storedIndex, isIndexing,
                           abortController, indexingStatus>>
       ELSE /\ OnIndexComplete(fileIndex)
            /\ RunFinally("completed")

(***************************************************************************)
(* The PDF text cleaning passes: ultraCleanPdfText and cleanPdfText.       *)
(***************************************************************************)
\* characters outside ASCII and control characters are named tokens
ControlChars == {"ctrl"}
WhiteSpace == {" ", "\n", "\t", "nbsp"}
SentenceEnds == {".", "!", "?"}
Letters == Range(LowerLetters) \cup Range(UpperLetters)

\* replace(/[set]/g, '')
RemoveAll(s, set) == SelectSeq(s, LAMBDA c : c \notin set)

\* replace(/c/g, by)
RECURSIVE ReplaceEach(_, _, _)
ReplaceEach(s, c, by) ==
  IF s = <<>> THEN <<>>
  ELSE (IF Head(s) = c THEN by ELSE <<Head(s)>>) \o ReplaceEach(Tail(s), c, by)

\* replace(/([left])([right])/g, '$1 $2'): the matches are found from left
\* to right and do not overlap
RECURSIVE SpaceBetween(_, _, _)
SpaceBetween(s, left, right) ==
  IF Len(s) < 2 THEN s
  ELSE IF s[1] \in left /\ s[2] \in right
    THEN <<s[1], " ", s[2]>> \o SpaceBetween(SubSeq(s, 3, Len(s)), left, right)
    ELSE <<s[1]>> \o SpaceBetween(Tail(s), left, right)

\* replace(/([a-z])([A-Z][a-z])/g, '$1 $2')
RECURSIVE SpaceBeforeCapitalised(_)
SpaceBeforeCapitalised(s) ==
  IF Len(s) < 3 THEN s
  ELSE IF s[1] \in Range(LowerLetters) /\ s[2] \in Range(UpperLetters)
          /\ s[3] \in Range(LowerLetters)
    THEN <<s[1], " ", s[2], s[3]>> \o SpaceBeforeCapitalised(SubSeq(s, 4, Len(s)))
    ELSE <<s[1]>> \o SpaceBeforeCapitalised(Tail(s))

\* replace(/word(optional)?/gi, by); optional is "" when the pattern has no
\* optional last character
RECURSIVE NormalizeWord(_, _, _, _)
NormalizeWord(s, word, optional, by) ==
  IF Len(s) < Len(word) THEN s
  ELSE IF toLowerCase(SubSeq(s, 1, Len(word))) = word
    THEN LET m == IF Len(s) > Len(word) /\ LowerChar(s[Len(word) + 1]) = optional
                    THEN Len(word) + 1 ELSE Len(word)
         IN by \o NormalizeWord(SubSeq(s, m + 1, Len(s)), word, optional, by)
    ELSE <<s[1]>> \o NormalizeWord(Tail(s), word, optional, by)

\* the length of the white space run at the head of s
RECURSIVE WhiteRun(_)
WhiteRun(s) ==
  IF s = <<>> \/ Head(s) \notin WhiteSpace THEN 0 ELSE 1 + WhiteRun(Tail(s))

\* replace(/\s+/g, ' ')
RECURSIVE CollapseWhiteSpace(_)
CollapseWhiteSpace(s) ==
  IF s = <<>> THEN <<>>
  ELSE IF Head(s) \in WhiteSpace
    THEN <<" ">> \o CollapseWhiteSpace(SubSeq(s, WhiteRun(s) + 1, Len(s)))
    ELSE <<Head(s)>> \o CollapseWhiteSpace(Tail(s))

\* replace(/\n\s*\n\s*\n/g, '\n\n'): from a line feed that has two more line
\* feeds in its white space run, up to the last line feed of the run
RECURSIVE CollapseBlankLines(_)
CollapseBlankLines(s) ==
  IF s = <<>> THEN <<>>
  ELSE LET feeds == { k \in 2..WhiteRun(s) : s[k] = "\n" }
       IN IF Head(s) = "\n" /\ Cardinality(feeds) >= 2
            THEN LET last == CHOOSE k \in feeds : \A j \in feeds : j <= k
                 IN <<"\n", "\n">> \o CollapseBlankLines(SubSeq(s, last + 1, Len(s)))
            ELSE <<Head(s)>> \o CollapseBlankLines(Tail(s))

\* String.prototype.trim
RECURSIVE trim(_)
trim(s) ==
  IF s = <<>> THEN <<>>
  ELSE IF Head(s) \in WhiteSpace THEN trim(Tail(s))
  ELSE IF s[Len(s)] \in WhiteSpace THEN trim(SubSeq(s, 1, Len(s) - 1))
  ELSE s

\* the steps both versions share: control characters, encoding repairs
RemoveControl(text) ==
  ReplaceEach(RemoveAll(RemoveAll(text, ControlChars), {"fffd"}), "nbsp", <<" ">>)

\* the four replaces that put a space between glued words
SeparateGlued(text) ==
  SpaceBetween(
    SpaceBetween(
      SpaceBetween(
        SpaceBetween(text, Range(LowerLetters), Range(UpperLetters)),
        SentenceEnds, Range(UpperLetters)),
      Letters, Digits),
    Digits, Letters)

\* the three closing steps
CleanWhiteSpace(text) == trim(CollapseBlankLines(CollapseWhiteSpace(text)))

\* cleanPdfText of the earlier content route
cleanPdfText(text) == CleanWhiteSpace(SeparateGlued(RemoveControl(text)))

\* the typographic characters ultraCleanPdfText rewrites
Typographic(text) ==
  ReplaceEach(
    ReplaceEach(
      ReplaceEach(
        ReplaceEach(
          ReplaceEach(
            ReplaceEach(text, "rsquo", <<"'">>),
            "ldquo", <<"\"">>),
          "rdquo", <<"\"">>),
        "ndash", <<"-">>),
      "mdash", <<"-", "-">>),
    "hellip", <<".", ".", ".">>)

\* the five replaces that normalize the educational key words
NormalizeKeyWords(text) ==
  NormalizeWord(
    NormalizeWord(
      NormalizeWord(
        NormalizeWord(
          NormalizeWord(text, <<"r","u","b","r","i","e","k","e">>, "n",
                        <<"r","u","b","r","i","e","k","e","n">>),
          <<"e","v","a","l","u","a","t","i","e">>, "",
          <<"e","v","a","l","u","a","t","i","e">>),
        <<"b","e","o","o","r","d","e","l","i","n","g">>, "",
        <<"b","e","o","o","r","d","e","l","i","n","g">>),
      <<"c","r","i","t","e","r","i">>, "a",
      <<"c","r","i","t","e","r","i","a">>),
    <<"c","o","m","p","e","t","e","n","t","i","e">>, "s",
    <<"c","o","m","p","e","t","e","n","t","i","e","s">>)

\* ultraCleanPdfText of the content route
ultraCleanPdfText(text) ==
  CleanWhiteSpace(
    NormalizeKeyWords(
      SpaceBeforeCapitalised(SeparateGlued(Typographic(RemoveControl(text))))))

\* the texts handed to the cleaning functions: up to MaxPieces pieces
CleanPieces ==
  { <<"E","V","A","L","U","A","T","I","E">>, <<"c","r","i","t","e","r","i">>,
    <<"X">>, <<"a">>, <<"1">>, <<".">>, <<" ">>, <<"\n">>, <<"nbsp">>,
    <<"ctrl">>, <<"mdash">>, <<"hellip">> }

CleanInputs == { Concat(pieces) : pieces \in SeqsUpTo(CleanPieces, MaxPieces) }

\* the text a further pass works on
LastPass(passes) == IF passes = <<>> THEN clInput ELSE passes[Len(passes)]

\* ultraCleanPdfText is applied to the text, then to its own result
UltraCleanPass ==
  /\ Len(clUltra) < 2
  /\ clUltra' = Append(clUltra, ultraCleanPdfText(LastPass(clUltra)))
  /\ UNCHANGED <<clInput, clPlain, srchVars, ctVars, ixVars, stVars, pureVars>>

\* cleanPdfText is applied to the text, then to its own result
PlainCleanPass ==
  /\ Len(clPlain) < 2
  /\ clPlain' = Append(clPlain, cleanPdfText(LastPass(clPlain)))
  /\ UNCHANGED <<clInput, clUltra, srchVars, ctVars, ixVars, stVars, pureVars>>

(***************************************************************************)
(* The streaming AI answer (generateAIResponse, handleStreamingResponse,   *)
(* stopAIResponse of the search interface).  A text is the sequence of its *)
(* tokens; the tokens of request r are the numbers 10 * r + 1 .. and the   *)
(* two fixed texts are the one-token texts 0 and 1.                        *)
(***************************************************************************)
\* 'AI response gestopt door gebruiker.'
StopNotice == <<0>>
\* 'Fout bij genereren AI antwoord: ...'
ErrorNotice == <<1>>

TokensOf(r) == { 10 * r + 1, 10 * r + 2 }

\* a || b on strings
OrElse(a, b) == IF a # <<>> THEN a ELSE b

\* the answer set in the AbortError branch: the history version reads the
\* aiResponse of its closure, the plain version the current state
AbortedResponse(component, rendered, current) ==
  IF component = "history"
    THEN OrElse(rendered, StopNotice)
    ELSE OrElse(current, StopNotice)

\* the finally block of generateAIResponse
StreamFinally(outcome) ==
  /\ isStreaming' = FALSE
  /\ abortControllerRef' = "null"
  /\ stPc' = "idle"
  /\ stOutcome' = outcome

StreamOthers == <<srchVars, ctVars, ixVars, clVars, pureVars>>

\* generateAIResponse up to the fetch: the handler belongs to the render
\* that shows the current answer
StartStream ==
  /\ stPc = "idle"
  /\ stRequests < MaxRequests
  /\ stRequests' = stRequests + 1
  /\ renderedAiResponse' = aiResponse
  /\ isStreaming' = TRUE
  /\ aiResponse' = <<>>
  /\ abortControllerRef' = "live"
  /\ fullResponse' = <<>>
  /\ stPc' = "fetching"
  /\ stOutcome' = "none"
  /\ streamEvents' = <<>>
  /\ UNCHANGED <<stComponent, StreamOthers>>

\* the fetch resolves: a response that is not ok is thrown as an error
FetchResolves ==
  /\ stPc = "fetching"
  /\ abortControllerRef = "live"
  /\ \E ok \in BOOLEAN :
       IF ok
         THEN /\ stPc' = "streaming"
              /\ UNCHANGED <<aiResponse, isStreaming, abortControllerRef, stOutcome>>
         ELSE /\ aiResponse' = ErrorNotice
              /\ StreamFinally("error")
  /\ UNCHANGED <<stComponent, stRequests, renderedAiResponse, fullResponse,
                 streamEvents, StreamOthers>>

\* the route has closed the stream behind a done or an error event
StreamClosed ==
  /\ streamEvents # <<>>
  /\ streamEvents[Len(streamEvents)] \in {"done", "error"}

\* the route enqueues a chunk of the model's answer and
\* handleStreamingResponse reads the data line with the token
ReceiveToken ==
  /\ stPc = "streaming"
  /\ abortControllerRef = "live"
  /\ ~StreamClosed
  /\ Len(fullResponse) < MaxTokens
  /\ \E token \in TokensOf(stRequests) :
       /\ fullResponse' = Append(fullResponse, token)
       /\ aiResponse' = Append(fullResponse, token)
  /\ streamEvents' = Append(streamEvents, "token")
  /\ UNCHANGED <<stComponent, stPc, stRequests, renderedAiResponse, isStreaming,
                 abortControllerRef, stOutcome, StreamOthers>>

\* the model's stream throws: the route enqueues the error event and closes
\* the stream; the client throws on data.error inside the try block of the
\* line, whose catch logs the error, and goes on reading
ReceiveError ==
  /\ stPc = "streaming"
  /\ abortControllerRef = "live"
  /\ ~StreamClosed
  /\ streamEvents' = Append(streamEvents, "error")
  /\ UNCHANGED <<stComponent, stPc, stRequests, aiResponse, renderedAiResponse,
                 isStreaming, abortControllerRef, fullResponse, stOutcome,
                 StreamOthers>>

\* the stream ends: the route enqueues the done event and the client
\* returns on data.done, or the body of a stream closed behind an error
\* event ends and the read loop is left; generateAIResponse returns
StreamDone ==
  /\ stPc = "streaming"
  /\ abortControllerRef = "live"
  /\ streamEvents' = IF StreamClosed THEN streamEvents
                     ELSE Append(streamEvents, "done")
  /\ StreamFinally("done")
  /\ UNCHANGED <<stComponent, stRequests, aiResponse, renderedAiResponse,
                 fullResponse, StreamOthers>>

\* stopAIResponse: the user stops the answer
stopAIResponse ==
  /\ abortControllerRef = "live"
  /\ abortControllerRef' = "aborted"
  /\ UNCHANGED <<stComponent, stPc, stRequests, aiResponse, renderedAiResponse,
                 isStreaming, fullResponse, stOutcome, streamEvents, StreamOthers>>

\* the pending fetch or read rejects with an AbortError: catch and finally
AbortCaught ==
  /\ abortControllerRef = "aborted"
  /\ aiResponse' = AbortedResponse(stComponent, renderedAiResponse, aiResponse)
  /\ StreamFinally("aborted")
  /\ UNCHANGED <<stComponent, stRequests, renderedAiResponse, fullResponse,
                 streamEvents, StreamOthers>>

(***************************************************************************)
(* The truncation of overlong content (POST of the content routes).  A     *)
(* long text is kept as its runs: [ch, n] stands for n times the character *)
(* ch, and adjacent runs differ in ch.  Indexes count from 0 as in the     *)
(* code.                                                                   *)
(***************************************************************************)
SentenceWindow == 1000
ParagraphWindow == 2000
PdfCeiling == 100000
FileCeiling == 200000

\* the hard ceilings of the three routes
Ceilings == {TruncateAt, PdfCeiling, FileCeiling}

RECURSIVE RunsLength(_)
RunsLength(text) ==
  IF text = <<>> THEN 0 ELSE Head(text).n + RunsLength(Tail(text))

\* the index of the first character of run k
RunStart(text, k) == RunsLength(SubSeq(text, 1, k - 1))

Largest(S) == CHOOSE x \in S : \A y \in S : y <= x

\* content.lastIndexOf(pattern, fromIndex) for the patterns '.' (ch ".",
\* width 1) and '\n\n' (ch "\n", width 2): -1 when there is no match
lastIndexOf(text, ch, width, fromIndex) ==
  LET hits == { Min(fromIndex, RunStart(text, k) + text[k].n - width) :
                  k \in { j \in 1..Len(text) : /\ text[j].ch = ch
                                               /\ text[j].n >= width
                                               /\ RunStart(text, j) <= fromIndex } }
  IN IF hits = {} THEN -1 ELSE Largest(hits)

\* content.substring(0, end)
RECURSIVE substring(_, _)
substring(text, end) ==
  IF text = <<>> \/ end <= 0 THEN <<>>
  ELSE IF Head(text).n >= end THEN <<[ch |-> Head(text).ch, n |-> end]>>
  ELSE <<Head(text)>> \o substring(Tail(text), end - Head(text).n)

\* the truncation block: the body that is kept and whether the notice is
\* appended
TruncateContent(content, ceiling) ==
  IF RunsLength(content) > ceiling
    THEN LET sentenceEnd == lastIndexOf(content, ".", 1, ceiling)
             paragraphEnd == lastIndexOf(content, "\n", 2, ceiling)
             truncateAt ==
               IF sentenceEnd > ceiling - SentenceWindow THEN sentenceEnd + 1
               ELSE IF paragraphEnd > ceiling - ParagraphWindow THEN paragraphEnd + 2
               ELSE ceiling
         IN [body |-> substring(content, truncateAt), notice |-> TRUE]
    ELSE [body |-> content, notice |-> FALSE]

\* the route truncates its content
TruncateApply ==
  /\ trOutput = <<>>
  /\ trOutput' = <<TruncateContent(trInput.content, trInput.ceiling)>>
  /\ UNCHANGED <<trInput, exArgs, exResult, srchVars, ctVars, ixVars, clVars, stVars>>

\* the contents that are truncated: letters with full stops at the indexes
\* dots and paragraph breaks (two line feeds) at the indexes paras
RECURSIVE Ascending(_)
Ascending(S) ==
  IF S = {} THEN <<>>
  ELSE LET least == CHOOSE x \in S : \A y \in S : x <= y
       IN <<least>> \o Ascending(S \ {least})

ComposeText(length, dots, paras) ==
  LET cuts == Ascending(({0, length} \cup dots \cup { d + 1 : d \in dots }
                           \cup paras \cup { q + 2 : q \in paras })
                         \cap 0..length)
      CharAt(i) == IF i \in dots THEN "."
                   ELSE IF \E q \in paras : i \in {q, q + 1} THEN "\n"
                   ELSE "a"
  IN [k \in 1..(Len(cuts) - 1) |-> [ch |-> CharAt(cuts[k]), n |-> cuts[k + 1] - cuts[k]]]

TruncationInputs ==
  { [content |-> ComposeText(c + over, { c + x : x \in dots }, { c + x : x \in paras }),
     ceiling |-> c] :
      c \in Ceilings, over \in {-1, 0, 1, 3000},
      dots \in { d \cup e : d \in {{}} \cup { {x} : x \in {-1500, -1000, -999, -1, 0, 1} },
                             e \in {{}, {-500}} },
      paras \in {{}} \cup { {x} : x \in {-2500, -2000, -1999, -2, -1, 0, 1} } }

(***************************************************************************)
(* The context of a search result (extractContext).  Positions count from  *)
(* 1; a region <<from, to>> is the part content[from..to].                 *)
(***************************************************************************)
ContextWindow == 100

\* the separator of contexts.join and the truncation marker
ContextSeparator == <<"\n", "\n", ".", ".", ".", "\n", "\n">>
Ellipsis == <<".", ".", ".">>

Smallest(S) == CHOOSE x \in S : \A y \in S : x <= y

\* the pattern character . matches everything but a line terminator
NoLineBreak(content, from, to) == \A i \in from..to : content[i] # "\n"

\* the positions at which \bterm\b matches with the flag i
WordHits(content, term) ==
  LET lowerContent == toLowerCase(content)
  IN { q \in 1..(Len(content) - Len(term) + 1) : MatchAt(lowerContent, term, q, TRUE) }

\* the first match of (.{0,100}\bterm\b.{0,100}) at or behind position p,
\* as a region, or <<>>: the match starts at the leftmost position from
\* which an occurrence can be reached, the first quantifier takes as much
\* as it can (up to the last occurrence in reach), and so does the second
MatchFrom(content, hits, length, p) ==
  LET ahead == { q \in hits : q >= p }
  IN IF ahead = {} THEN <<>>
     ELSE LET first == Smallest(ahead)
              from == Smallest({ i \in p..first :
                                   /\ first - i <= ContextWindow
                                   /\ NoLineBreak(content, i, first - 1) })
              reach == Largest({ q \in ahead :
                                   /\ q - from <= ContextWindow
                                   /\ NoLineBreak(content, from, q - 1) })
              behind == reach + length - 1
              to == Largest({ e \in behind..Min(Len(content), behind + ContextWindow) :
                                NoLineBreak(content, behind + 1, e) })
          IN <<from, to>>

\* content.match(regex) || [] followed by slice(0, 2): the regions of the
\* first two matches
FirstMatches(content, term) ==
  LET hits == WordHits(content, term)
      m1 == MatchFrom(content, hits, Len(term), 1)
      m2 == IF m1 = <<>> THEN <<>> ELSE MatchFrom(content, hits, Len(term), m1[2] + 1)
  IN IF m1 = <<>> THEN <<>> ELSE IF m2 = <<>> THEN <<m1>> ELSE <<m1, m2>>

\* the context cut from a region: the text is trimmed, the region with it
TrimmedContext(content, region) ==
  LET inked == { i \in region[1]..region[2] : content[i] \notin WhiteSpace }
  IN IF inked = {} THEN [from |-> region[1], to |-> region[1] - 1, text |-> <<>>]
     ELSE [from |-> Smallest(inked), to |-> Largest(inked),
           text |-> SubSeq(content, Smallest(inked), Largest(inked))]

\* the forEach over the matches of one term: a match is pushed unless a
\* context already includes it
RECURSIVE PushMatches(_, _, _)
PushMatches(contexts, content, regions) ==
  IF regions = <<>> THEN contexts
  ELSE LET match == TrimmedContext(content, Head(regions))
       IN PushMatches(
            IF \E k \in 1..Len(contexts) : includes(contexts[k].text, match.text)
              THEN contexts ELSE Append(contexts, match),
            content, Tail(regions))

\* the first loop over the terms: whole-word matches
RECURSIVE WordContexts(_, _, _)
WordContexts(contexts, content, searchTerms) ==
  IF searchTerms = <<>> THEN contexts
  ELSE WordContexts(PushMatches(contexts, content, FirstMatches(content, Head(searchTerms))),
                    content, Tail(searchTerms))

\* the second loop: for each term the surroundings of its first occurrence
\* as a substring
RECURSIVE PartialContexts(_, _, _)
PartialContexts(contexts, content, searchTerms) ==
  IF searchTerms = <<>> THEN contexts
  ELSE LET lowerTerm == Head(searchTerms)
           lowerContent == toLowerCase(content)
           found == { q \in 1..Len(content) : OccursAt(lowerContent, lowerTerm, q) }
           index == Smallest(found)
           region == << IF index - ContextWindow > 1 THEN index - ContextWindow ELSE 1,
                        Min(Len(content), index + Len(lowerTerm) - 1 + ContextWindow) >>
       IN PartialContexts(
            IF found = {} THEN contexts
            ELSE Append(contexts, TrimmedContext(content, region)),
            content, Tail(searchTerms))

\* the contexts array when the loops are done
ContextsOf(content, searchTerms) ==
  LET exact == WordContexts(<<>>, content, searchTerms)
  IN IF Len(exact) = 0 THEN PartialContexts(<<>>, content, searchTerms) ELSE exact

\* contexts.join('\n\n...\n\n')
RECURSIVE JoinContexts(_)
JoinContexts(contexts) ==
  IF contexts = <<>> THEN <<>>
  ELSE IF Len(contexts) = 1 THEN contexts[1].text
  ELSE contexts[1].text \o ContextSeparator \o JoinContexts(Tail(contexts))

\* a result that is returned whatever its length
CutTo_Unlimited(result, maxLength) == result

\* the hard truncation of the joined contexts
CutTo(result, maxLength) ==
  IF Len(result) > maxLength
    THEN SubSeq(result, 1, maxLength) \o Ellipsis
    ELSE result

extractContext(content, searchTerms, maxLength) ==
  LET contexts == ContextsOf(content, searchTerms)
  IN IF Len(contexts) = 0
       THEN trim(SubSeq(content, 1, Min(maxLength, Len(content))))
       ELSE CutTo(JoinContexts(contexts), maxLength)

\* the call returns
ExtractApply ==
  /\ exResult = <<>>
  /\ exResult' = << [ contexts |-> ContextsOf(exArgs.content, exArgs.searchTerms),
                      value |-> extractContext(exArgs.content, exArgs.searchTerms,
                                               exArgs.maxLength) ] >>
  /\ UNCHANGED <<exArgs, trInput, trOutput, srchVars, ctVars, ixVars, clVars, stVars>>

\* the arguments of the calls: contents with whole-word matches, with
\* matches inside words only, without matches, with line breaks, with
\* surrounding white space, and a content longer than the window
Filler(n) == [i \in 1..n |-> "x"]

ContextContents ==
  { <<"d","e"," ","t","o","e","t","s"," ","i","s"," ","a","f">>,
    <<" ","a","b"," ","c","d"," ">>,
    <<"e","i","n","d","t","o","e","t","s","e","n","l","i","j","s","t">>,
    <<"t","o","e","t","s"," ","a","\n","b"," ","T","o","e","t","s"," ","e","x","a","m","e","n">>,
    <<"t","o","e","t","s"," ">> \o Filler(150) \o <<" ","e","x","a","m","e","n">>,
    <<"e","x","a","m","e","n"," ","t","o","e","t","s"," ">> \o Filler(120)
       \o <<" ","t","o","e","t","s">> }

ContextTerms ==
  { <<<<"t","o","e","t","s">>>>,
    <<<<"t","o","e","t","s">>, <<"e","x","a","m","e","n">>>>,
    <<<<"t","o","e","t","s","e","n">>, <<"t","o","e","t","s">>>>,
    <<<<"r","u","b","r","i","e","k">>>>,
    <<>> }

ContextLengths == {4, 20, 500}

ContextArgs ==
  { [content |-> c, searchTerms |-> t, maxLength |-> n] :
      c \in ContextContents, t \in ContextTerms, n \in ContextLengths }

(***************************************************************************)
(* Specifications.                                                         *)
(***************************************************************************)
\* no search request
IdleSearch ==
  /\ sPc = "idle"
  /\ sRequest = [ query |-> <<>>, hasFileIndex |-> FALSE, fileIndex |-> <<>>,
                  hasMaxResults |-> FALSE, maxResults |-> 0 ]
  /\ sResponse = NoResponse
  /\ sRelevance = <<>>

\* a session that has not started an indexing run
InitIndexer ==
  /\ authenticated = TRUE
  /\ appFileIndex \in InitialIndexes
  /\ storedIndex = IF appFileIndex = <<>> THEN <<>> ELSE <<appFileIndex>>
  /\ isIndexing = FALSE
  /\ indexingProgress = [current |-> 0, total |-> 0]
  /\ runPc = "idle"
  /\ runs = 0
  /\ resetFromZero = FALSE
  /\ existingIndex = <<>>
  /\ abortController = "null"
  /\ filesToProcess = <<>>
  /\ fileIndex = <<>>
  /\ batchStart = 0
  /\ processed = 0
  /\ tasks = <<>>
  /\ indexingStatus = ""
  /\ processingDetails = {}

\* no indexing in the session
IdleIndexer == InitIndexer /\ appFileIndex = <<>>

\* no text is being cleaned
IdleClean == clInput = <<>> /\ clUltra = <<>> /\ clPlain = <<>>

\* no AI request
IdleStream ==
  /\ stComponent = "plain"
  /\ stPc = "idle"
  /\ stRequests = 0
  /\ aiResponse = <<>>
  /\ renderedAiResponse = <<>>
  /\ isStreaming = FALSE
  /\ abortControllerRef = "null"
  /\ fullResponse = <<>>
  /\ stOutcome = "none"
  /\ streamEvents = <<>>

\* no content is being truncated
IdleTruncate == trInput = [content |-> <<>>, ceiling |-> 0] /\ trOutput = <<>>

\* no context is being extracted
IdleContext ==
  /\ exArgs = [content |-> <<>>, searchTerms |-> <<>>, maxLength |-> 0]
  /\ exResult = <<>>

IdlePure == IdleTruncate /\ IdleContext

IdleAux == IdleClean /\ IdleStream /\ IdlePure

\* no content request
IdleContent ==
  /\ cPc = "idle"
  /\ cRequest = [ jsonOk |-> FALSE, hasAccessToken |-> FALSE,
                  hasFilePath |-> FALSE, fileType |-> "other" ]
  /\ cBlob = "none"
  /\ cStep = 1
  /\ cPdfParseInitialized = FALSE
  /\ cExtract = NoExtract
  /\ cResponse = NoContentResponse

InitSearch ==
  /\ sPc = "request"
  /\ sResponse = NoResponse
  /\ sRelevance = <<>>
  /\ IdleContent
  /\ IdleIndexer
  /\ IdleAux
  /\ sRequest \in SearchRequests

NextSearch == SearchPOST

\* the search endpoint serving arbitrary requests
SpecSearch == InitSearch /\ [][NextSearch]_vars

InitScore ==
  /\ sPc = "request"
  /\ sResponse = NoResponse
  /\ sRelevance = <<>>
  /\ IdleContent
  /\ IdleIndexer
  /\ IdleAux
  /\ \E q \in ScoreQueries, c \in ScoreContexts :
       \E a \in NamesOf(MaxWords), b \in NamesOf(MaxWords) :
         sRequest = ScoreRequest(q, a, b, c)

NextScore == SearchPOST

\* the scorer applied to pairs of documents that differ in the name only
SpecScore == InitScore /\ [][NextScore]_vars

\* the next request reaches the content endpoint; the module keeps its
\* pdf-parse singleton
ContentNextRequest ==
  /\ cPc = "responded"
  /\ cPc' = "request"
  /\ cRequest' \in ContentRequests
  /\ cBlob' = "none"
  /\ cStep' = 1
  /\ cExtract' = NoExtract
  /\ cResponse' = NoContentResponse
  /\ UNCHANGED <<cPdfParseInitialized, srchVars, ixVars, auxVars>>

InitContent ==
  /\ cPc = "request"
  /\ cRequest \in ContentRequests
  /\ cBlob = "none"
  /\ cStep = 1
  /\ cPdfParseInitialized = FALSE
  /\ cExtract = NoExtract
  /\ cResponse = NoContentResponse
  /\ IdleSearch
  /\ IdleIndexer
  /\ IdleAux

NextContent ==
  \/ ContentReceive
  \/ TryPdfParse
  \/ TryExtraction
  \/ TryRawScanning
  \/ ContentPostProcess
  \/ ContentNextRequest

\* the content endpoint serving one request after the other
SpecContent == InitContent /\ [][NextContent]_vars

(***************************************************************************)
(* Properties of the search endpoint.                                      *)
(***************************************************************************)
Responded == sPc = "responded" /\ sResponse.success

\* the request's maxResults after the default is applied
RequestedMax == IF sRequest.hasMaxResults THEN sRequest.maxResults ELSE DefaultMaxResults

\* C2: in every search response the results are in non-increasing order of
\* relevanceScore
C2_ResultsOrdered ==
  Responded =>
    \A i \in 1..(Len(sResponse.results) - 1) :
      sResponse.results[i].relevanceScore >= sResponse.results[i + 1].relevanceScore

\* a response whose first two results were in the opposite order in the input
C2_Witness ==
  /\ Responded
  /\ Len(sResponse.results) >= 2
  /\ sResponse.results[1].relevanceScore > sResponse.results[2].relevanceScore
  /\ sResponse.results[1].input > sResponse.results[2].input

\* C3 as stated: for every maxResults = N, results.length <= N and
\* results.length <= totalFound
C3_Original ==
  Responded =>
    /\ Len(sResponse.results) <= RequestedMax
    /\ Len(sResponse.results) <= sResponse.totalFound

\* C3 amended: for every maxResults = N >= 0, results.length <= N and
\* results.length <= totalFound; for a negative N the response holds
\* max(totalFound + N, 0) results
C3_TruncationSafety ==
  Responded =>
    /\ RequestedMax >= 0 => Len(sResponse.results) <= RequestedMax
    /\ RequestedMax < 0 =>
         Len(sResponse.results) =
           (IF sResponse.totalFound + RequestedMax > 0
              THEN sResponse.totalFound + RequestedMax ELSE 0)
    /\ Len(sResponse.results) <= sResponse.totalFound

\* a response that was cut to a positive maxResults
C3_Witness ==
  /\ Responded
  /\ sRequest.hasMaxResults
  /\ RequestedMax >= 1
  /\ sResponse.totalFound > RequestedMax
  /\ Len(sResponse.results) = RequestedMax

(***************************************************************************)
(* Properties of the scorer.                                               *)
(***************************************************************************)
\* the expanded terms of the request, lower-cased as the scorer uses them
LowerTerms == { toLowerCase(sResponse.expandedTerms[i]) : i \in 1..Len(sResponse.expandedTerms) }

\* the file name of a document contains a whole-word match of some term
NameHasExactMatch(doc) ==
  \E t \in LowerTerms : CountMatches(toLowerCase(doc.name), t, TRUE) > 0

\* C8 as stated: of two documents equal in path and content, the one whose
\* file name contains a whole-word match of a term scores strictly higher
\* than the one whose file name contains none
C8_Original ==
  Responded =>
    \A i, j \in 1..Len(sRequest.fileIndex) :
      LET A == sRequest.fileIndex[i]
          B == sRequest.fileIndex[j]
      IN (/\ A.path = B.path /\ A.content = B.content
          /\ NameHasExactMatch(A) /\ ~NameHasExactMatch(B))
         => sRelevance[i].score > sRelevance[j].score

\* C8 amended: ... and B's file name holds, for every term, no more
\* substring occurrences than A's file name; then A's raw score is strictly
\* greater than B's
C8_ScoreMonotonicity ==
  Responded =>
    \A i, j \in 1..Len(sRequest.fileIndex) :
      LET A == sRequest.fileIndex[i]
          B == sRequest.fileIndex[j]
      IN (/\ A.path = B.path /\ A.content = B.content
          /\ NameHasExactMatch(A) /\ ~NameHasExactMatch(B)
          /\ \A t \in LowerTerms :
               CountMatches(toLowerCase(B.name), t, FALSE)
                 <= CountMatches(toLowerCase(A.name), t, FALSE))
         => sRelevance[i].score > sRelevance[j].score

\* A has a whole-word match, B only substring matches (as many as A), and
\* both were scored above zero
C8_Witness ==
  /\ Responded
  /\ Len(sRequest.fileIndex) = 2
  /\ LET A == sRequest.fileIndex[1]
         B == sRequest.fileIndex[2]
     IN /\ NameHasExactMatch(A) /\ ~NameHasExactMatch(B)
        /\ \A t \in LowerTerms :
             CountMatches(toLowerCase(B.name), t, FALSE)
               <= CountMatches(toLowerCase(A.name), t, FALSE)
        /\ \E t \in LowerTerms :
             CountMatches(toLowerCase(B.name), t, FALSE) > 0
        /\ sRelevance[2].score > 0
        /\ sRelevance[1].score > sRelevance[2].score

\* the maximal runs of word characters of a text
RECURSIVE WordRunsFrom(_, _, _, _)
WordRunsFrom(text, i, cur, acc) ==
  IF i > Len(text) THEN (IF cur = <<>> THEN acc ELSE Append(acc, cur))
  ELSE IF text[i] \in WordChars
    THEN WordRunsFrom(text, i + 1, Append(cur, text[i]), acc)
    ELSE WordRunsFrom(text, i + 1, <<>>, IF cur = <<>> THEN acc ELSE Append(acc, cur))

WordRuns(text) == WordRunsFrom(text, 1, <<>>, <<>>)

\* the occurrences of a term that are a whole word of the text
WholeWordOccurrences(text, term) ==
  Cardinality({ k \in 1..Len(WordRuns(text)) : WordRuns(text)[k] = term })

\* the disjoint occurrences of a term inside one word, taken left to right
RECURSIVE OccurrencesInWord(_, _)
OccurrencesInWord(word, term) ==
  IF Len(word) < Len(term) THEN 0
  ELSE IF SubSeq(word, 1, Len(term)) = term
    THEN 1 + OccurrencesInWord(SubSeq(word, Len(term) + 1, Len(word)), term)
    ELSE OccurrencesInWord(Tail(word), term)

\* the occurrences of a term inside longer words of the text
RECURSIVE PartOfWordFrom(_, _, _)
PartOfWordFrom(wordRuns, term, k) ==
  IF k > Len(wordRuns) THEN 0
  ELSE (IF wordRuns[k] = term THEN 0 ELSE OccurrencesInWord(wordRuns[k], term))
       + PartOfWordFrom(wordRuns, term, k + 1)

PartOfWordOccurrences(text, term) == PartOfWordFrom(WordRuns(text), term, 1)

\* the score of one term when an occurrence weighs wholeName / partName in
\* the file name, and so on for the path and the content
WeightedOccurrences(doc, term, wholeName, wholePath, wholeContent) ==
    WholeWordOccurrences(toLowerCase(doc.name), term) * wholeName
  + WholeWordOccurrences(toLowerCase(doc.path), term) * wholePath
  + WholeWordOccurrences(toLowerCase(doc.content.text), term) * wholeContent
  + PartOfWordOccurrences(toLowerCase(doc.name), term) * 10
  + PartOfWordOccurrences(toLowerCase(doc.path), term) * 5
  + PartOfWordOccurrences(toLowerCase(doc.content.text), term) * 1

ScoredTermScore(doc, term) ==
  TermScore(term, toLowerCase(doc.name), toLowerCase(doc.path),
            toLowerCase(doc.content.text))

\* C9 as stated: a whole-word occurrence contributes 20 (name), 10 (path) or
\* 3 (content), a substring occurrence that is not a whole word 10, 5 or 1,
\* and the term score is the sum over all occurrences
C9_Original ==
  Responded =>
    \A i \in 1..Len(sRequest.fileIndex) : \A t \in LowerTerms :
      ScoredTermScore(sRequest.fileIndex[i], t)
        = WeightedOccurrences(sRequest.fileIndex[i], t, 20, 10, 3)

\* C9 amended: the substring patterns count the whole-word occurrences too,
\* so a whole-word occurrence contributes 20 + 10 (name), 10 + 5 (path) or
\* 3 + 1 (content), and a substring occurrence that is not a whole word
\* contributes 10, 5 or 1
C9_TermWeights ==
  Responded =>
    \A i \in 1..Len(sRequest.fileIndex) : \A t \in LowerTerms :
      ScoredTermScore(sRequest.fileIndex[i], t)
        = WeightedOccurrences(sRequest.fileIndex[i], t, 30, 15, 4)

\* a file name with a whole-word and a part-of-word occurrence of one term
C9_Witness ==
  /\ Responded
  /\ \E i \in 1..Len(sRequest.fileIndex) : \E t \in LowerTerms :
       /\ WholeWordOccurrences(toLowerCase(sRequest.fileIndex[i].name), t) >= 1
       /\ PartOfWordOccurrences(toLowerCase(sRequest.fileIndex[i].name), t) >= 1
       /\ WholeWordOccurrences(toLowerCase(sRequest.fileIndex[i].content.text), t) >= 1
       /\ sRelevance[i].score > 0

(***************************************************************************)
(* The rubrieken scenario.                                                 *)
(***************************************************************************)
Rubriek == <<"r","u","b","r","i","e","k">>

\* the request of the scenario: the query "rubrieken" and the document alone
\* in the collection, with the default maxResults
RubriekScenario(doc) ==
  /\ Responded
  /\ sRequest.query = RubriekenQuery
  /\ sRequest.fileIndex = <<doc>>
  /\ ~sRequest.hasMaxResults

\* what the scenario says of everything but the totals
RubriekParts(doc) ==
  /\ Has(sResponse.expandedTerms, RubriekenQuery)
  /\ Has(sResponse.expandedTerms, Rubriek)
  /\ CountMatches(toLowerCase(doc.name), Rubriek, TRUE) = 0
  /\ CountMatches(toLowerCase(doc.name), Rubriek, FALSE) * 10 = 10
  /\ CountMatches(toLowerCase(doc.content.text), Rubriek, TRUE) * 3 = 3
  /\ Len(sResponse.results) = 1
  /\ sResponse.results[1].file = doc

\* C10 as stated: the total raw score is 13 and the relevanceScore 0.13
C10_Original ==
  \A doc \in RubriekDocs :
    RubriekScenario(doc) =>
      /\ RubriekParts(doc)
      /\ sRelevance[1].score = 13 * ScoreScale
      /\ sResponse.results[1].relevanceScore * 100 = 13 * ScoreScale * NormalizeBy

\* C10 amended: the content match of rubriek is also counted by the substring
\* pattern (1) and the content is shorter than 5000 characters (factor 1.2),
\* so under a path without a term the raw score is (10 + 3 + 1) * 1.2 = 16.8
\* and the relevanceScore 0.168; under the path /evaluatie_rubriek.txt the
\* path match adds 5: raw score 22.8, relevanceScore 0.228
C10_RubriekenScenario ==
  /\ RubriekScenario(RubriekDoc) =>
       /\ RubriekParts(RubriekDoc)
       /\ sRelevance[1].score * 10 = 168 * ScoreScale
       /\ sResponse.results[1].relevanceScore * 1000 = 168 * ScoreScale * NormalizeBy
  /\ RubriekScenario(RubriekDocAtRoot) =>
       /\ RubriekParts(RubriekDocAtRoot)
       /\ sRelevance[1].score * 10 = 228 * ScoreScale
       /\ sResponse.results[1].relevanceScore * 1000 = 228 * ScoreScale * NormalizeBy

C10_Witness == RubriekScenario(RubriekDoc) /\ sRelevance[1].matches = <<Rubriek>>

NextIndexing ==
  \/ StartUpdate
  \/ StartReset
  \/ stopIndexing
  \/ ListFiles
  \/ BatchBegin
  \/ \E k \in 1..batchSize : TaskFetch(k)
  \/ \E k \in 1..batchSize : TaskBackoff(k)
  \/ BatchEnd
  \/ DelayEnd

InitIndexing == InitIndexer /\ IdleSearch /\ IdleContent /\ IdleAux

\* the indexing loop with its user (start, reset, stop) and its collaborators
SpecIndexing == InitIndexing /\ [][NextIndexing]_vars

(***************************************************************************)
(* Properties of the content endpoint.                                     *)
(***************************************************************************)
\* the request passed the validation of the handler
ValidContentRequest ==
  cRequest.hasAccessToken /\ cRequest.hasFilePath /\ cRequest.fileType = "pdf"

\* the extraction gave up: the buffer was refused or all strategies failed
ExtractionFailed == cBlob \in {"undefined", "empty", "notPdf"} \/ cStep = 10

\* C4: for every downloaded byte input tagged pdf the handler answers with
\* status 200 and content; when the buffer is undefined, empty or without
\* PDF header, or when every strategy failed, the answer has
\* extractionSuccess = false and a diagnostic content; for the empty buffer
\* the diagnostic embeds "PDF bestand is leeg"
C4_ExtractionNeverRaises ==
  (cPc = "responded" /\ cBlob # "none") =>
     /\ cResponse.status = 200
     /\ cResponse.hasContent
     /\ cResponse.hasExtractionSuccess
     /\ ExtractionFailed =>
          /\ ~cResponse.extractionSuccess
          /\ cResponse.content.kind = "pdf-error-fallback"
          /\ cResponse.extractionMethod = "ultimate-pdf-error-fallback"
     /\ cBlob = "empty" => cResponse.content.detail = MsgEmpty

\* a 0-byte download was answered with the diagnostic
C4_Witness ==
  /\ cPc = "responded"
  /\ cBlob = "empty"
  /\ cResponse.status = 200
  /\ ~cResponse.extractionSuccess
  /\ cResponse.content.detail = MsgEmpty

RunEnded(status) == runPc = "idle" /\ indexingStatus = status

Skipped(file) == file.size > SizeLimit \/ HasSkipExtension(file.name)

\* the failure of a file was logged by the run
FailureLogged(file) ==
  \E kind \in {"http-error", "error"} :
     [kind |-> kind, name |-> file.name] \in processingDetails

\* the entry carries the storage metadata of the file
EntryOf(entry, file) ==
  /\ entry.name = file.name
  /\ entry.path = file.path
  /\ entry.size = file.size
  /\ entry.modified = file.server_modified

\* C1: the collection handed to onIndexComplete has at most one entry per
\* path
C1_PathUniqueness ==
  \A i, j \in 1..Len(appFileIndex) :
     appFileIndex[i].path = appFileIndex[j].path => i = j

\* C6: a run ends with an error only when the listing failed, never because
\* of a file; after a completed run every selected file that was not skipped
\* has an entry with its metadata in the collection, and a file whose
\* failure was logged has such an entry with a placeholder content
C6_FailureIsolation ==
  /\ RunEnded("error") => processingDetails = {}
  /\ RunEnded("completed") =>
       \A k \in 1..Len(filesToProcess) :
          LET file == filesToProcess[k]
          IN ~Skipped(file) =>
               /\ \E e \in Range(appFileIndex) : EntryOf(e, file)
               /\ FailureLogged(file) =>
                    \E e \in Range(appFileIndex) :
                       /\ EntryOf(e, file)
                       /\ e.content \in {"http-error", "processing-error"}

\* a run of two batches completed: the file of the first batch failed, the
\* file of the second batch was extracted, both are in the collection
C6_Witness ==
  /\ RunEnded("completed")
  /\ Len(filesToProcess) > batchSize
  /\ FailureLogged(filesToProcess[1])
  /\ \E e \in Range(appFileIndex) :
        EntryOf(e, filesToProcess[1]) /\ e.content = "http-error"
  /\ \E k \in (batchSize + 1)..Len(filesToProcess) :
        \E e \in Range(appFileIndex) :
           EntryOf(e, filesToProcess[k]) /\ e.content = "extracted"

\* C7: after a cancelled run the entries the run had produced are in the
\* collection of the caller
C7_PartialProgressKept ==
  RunEnded("cancelled") =>
     \A k \in 1..Len(fileIndex) : fileIndex[k] \in Range(appFileIndex)

(***************************************************************************)
(* Properties of the result list.                                          *)
(***************************************************************************)
\* the raw score of the document behind a result
RawScoreOf(result) == sRelevance[result.input].score

\* the input positions of the documents in the results
ResultInputs == { sResponse.results[p].input : p \in 1..Len(sResponse.results) }

\* C11: of two documents of the collection with different raw scores, the
\* one with the greater raw score comes first in the results, and it is in
\* the results whenever the other one is
C11_RawOrdering ==
  Responded =>
    /\ \A p, q \in 1..Len(sResponse.results) :
         RawScoreOf(sResponse.results[p]) > RawScoreOf(sResponse.results[q])
           => p < q
    /\ \A i, j \in 1..Len(sRequest.fileIndex) :
         (sRelevance[i].score > sRelevance[j].score /\ j \in ResultInputs)
           => i \in ResultInputs

\* C12: two results with equal relevanceScore are in the order of the input
\* collection
C12_StableTies ==
  Responded =>
    \A p, q \in 1..Len(sResponse.results) :
      (/\ p < q
       /\ sResponse.results[p].relevanceScore = sResponse.results[q].relevanceScore)
        => sResponse.results[p].input < sResponse.results[q].input

\* a tie of two different documents behind a result that was moved in front
\* of them
C12_Witness ==
  /\ Responded
  /\ Len(sResponse.results) >= 3
  /\ sResponse.results[1].input > sResponse.results[2].input
  /\ sResponse.results[2].relevanceScore = sResponse.results[3].relevanceScore
  /\ sResponse.results[2].file # sResponse.results[3].file
  /\ sResponse.results[2].input < sResponse.results[3].input

\* C13: every result has a relevanceScore above 0 and is a document of the
\* input collection with a raw score above 0, no document is returned twice,
\* and totalFound is the number of input documents with a raw score other
\* than 0, whatever maxResults is
C13_HitIffNonZero ==
  Responded =>
    /\ \A p \in 1..Len(sResponse.results) :
         LET r == sResponse.results[p]
         IN /\ r.relevanceScore > 0
            /\ r.input \in 1..Len(sRequest.fileIndex)
            /\ r.file = sRequest.fileIndex[r.input]
            /\ sRelevance[r.input].score > 0
    /\ \A p, q \in 1..Len(sResponse.results) :
         sResponse.results[p].input = sResponse.results[q].input => p = q
    /\ sResponse.totalFound =
         Cardinality({ i \in 1..Len(sRequest.fileIndex) : sRelevance[i].score # 0 })

\* a collection with hits and a document without score, cut by maxResults
C13_Witness ==
  /\ Responded
  /\ \E i \in 1..Len(sRequest.fileIndex) : sRelevance[i].score = 0
  /\ Len(sResponse.results) >= 1
  /\ sResponse.totalFound > Len(sResponse.results)

\* the query is not empty and holds no character of a term
IsStopCharQuery(query) ==
  /\ query # <<>>
  /\ \A k \in 1..Len(query) : query[k] \notin WordChars \cup ExtendedLatin

\* C14 as stated: for a query of stop characters the response has no results
\* and totalFound = 0, and no document was scored
C14_Original ==
  (Responded /\ IsStopCharQuery(sRequest.query)) =>
     /\ sResponse.results = <<>>
     /\ sResponse.totalFound = 0
     /\ sRelevance = <<>>

\* C14 amended: for a query of stop characters the cleaned and the expanded
\* term list are empty and the response has status 200, no results and
\* totalFound = 0; every document of the collection is still scored, with
\* raw score 0
C14_StopCharQuery ==
  (sPc = "responded" /\ IsStopCharQuery(sRequest.query) /\ sRequest.hasFileIndex) =>
     /\ sResponse.status = 200
     /\ sResponse.searchTerms = <<>>
     /\ sResponse.expandedTerms = <<>>
     /\ sResponse.results = <<>>
     /\ sResponse.totalFound = 0
     /\ Len(sRelevance) = Len(sRequest.fileIndex)
     /\ \A i \in 1..Len(sRelevance) : sRelevance[i].score = 0

\* the query "(( ??" was answered for a collection of three documents
C14_Witness ==
  /\ Responded
  /\ sRequest.query = BracketQuery
  /\ Len(sRequest.fileIndex) = 3
  /\ sResponse.results = <<>>

(***************************************************************************)
(* The cleaning passes applied twice.                                      *)
(***************************************************************************)
InitClean ==
  /\ IdleStream /\ IdlePure
  /\ clInput \in CleanInputs
  /\ clUltra = <<>>
  /\ clPlain = <<>>
  /\ IdleSearch /\ IdleContent /\ IdleIndexer

NextClean == UltraCleanPass \/ PlainCleanPass

\* both cleaning functions applied to a text and to their own result
SpecClean == InitClean /\ [][NextClean]_vars

\* C15: for both cleaning functions the second pass returns the text of the
\* first pass
C15_Idempotent ==
  /\ Len(clUltra) = 2 => clUltra[2] = clUltra[1]
  /\ Len(clPlain) = 2 => clPlain[2] = clPlain[1]

\* the part of C15 about cleanPdfText
C15_PlainIdempotent == Len(clPlain) = 2 => clPlain[2] = clPlain[1]

\* C16: the extractor returns success = true only with text that the
\* readability gate accepted
\* C17: on every answered search the expanded terms are free of duplicates,
\* contain every search term, contain every synonym listed under a search
\* term that is a key of the synonym table, contain the key and all synonyms
\* of every key that lists a search term as a synonym, and hold no term of
\* length one or less.
ListedUnder(k, t) == Has(synonymMap[k].synonyms, t)

AllIn(ts, seq) == \A j \in 1..Len(ts) : Has(seq, ts[j])

\* an answered search for a key of the synonym table
C17_KeyWitness ==
  /\ sPc = "responded"
  /\ sResponse.status = 200
  /\ \E i \in 1..Len(sResponse.searchTerms), k \in 1..Len(synonymMap) :
       synonymMap[k].key = sResponse.searchTerms[i]

C17_Expansion ==
  (sPc = "responded" /\ sResponse.status = 200) =>
    LET terms == sResponse.searchTerms
        expanded == sResponse.expandedTerms
    IN /\ \A i, j \in 1..Len(expanded) : expanded[i] = expanded[j] => i = j
       /\ AllIn(terms, expanded)
       /\ \A i \in 1..Len(terms), k \in 1..Len(synonymMap) :
            /\ synonymMap[k].key = terms[i] => AllIn(synonymMap[k].synonyms, expanded)
            /\ ListedUnder(k, terms[i]) =>
                 /\ Has(expanded, synonymMap[k].key)
                 /\ AllIn(synonymMap[k].synonyms, expanded)
       /\ \A i \in 1..Len(expanded) : Len(expanded[i]) > 1

\* an answered search for a synonym of two keys
C17_Witness ==
  /\ sPc = "responded"
  /\ sResponse.status = 200
  /\ \E i \in 1..Len(sResponse.searchTerms) :
       \E k1, k2 \in 1..Len(synonymMap) :
         /\ k1 # k2
         /\ ListedUnder(k1, sResponse.searchTerms[i])
         /\ ListedUnder(k2, sResponse.searchTerms[i])

C16_QualityGate ==
  (cPc \in {"post", "responded"} /\ cExtract.success)
    => cExtract.content.kind = "extracted"
(***************************************************************************)
(* The streaming answer and its abort.                                     *)
(***************************************************************************)
InitStream ==
  /\ IdleSearch /\ IdleContent /\ IdleIndexer /\ IdleClean /\ IdlePure
  /\ stComponent \in {"history", "plain"}
  /\ stPc = "idle"
  /\ stRequests = 0
  /\ aiResponse = <<>>
  /\ renderedAiResponse = <<>>
  /\ isStreaming = FALSE
  /\ abortControllerRef = "null"
  /\ fullResponse = <<>>
  /\ stOutcome = "none"
  /\ streamEvents = <<>>

NextStream ==
  \/ StartStream
  \/ FetchResolves
  \/ ReceiveToken
  \/ ReceiveError
  \/ StreamDone
  \/ stopAIResponse
  \/ AbortCaught

SpecStream == InitStream /\ [][NextStream]_vars

\* C18: after an abort the displayed answer is the concatenation of the
\* tokens received for this request before the abort, and the stop notice
\* only when no token had arrived; it is never the answer of an earlier
\* request.
C18_PartialAnswerKept ==
  (stPc = "idle" /\ stOutcome = "aborted")
    => aiResponse = OrElse(fullResponse, StopNotice)

(***************************************************************************)
(* The size limit of the indexing loop.                                    *)
(***************************************************************************)
\* the limit the README states: files above 10MB are skipped
ReadmeSizeLimit == 10 * 1024 * 1024

\* C19: for every listed file whose size exceeds 10MB no content request is
\* made and no entry is added to the index; every file up to 10MB that is
\* not of an excluded binary type is processed.
C19_SkipsOver10MB ==
  \A k \in 1..Len(tasks) :
    IF tasks[k].file.size > ReadmeSizeLimit \/ HasSkipExtension(tasks[k].file.name)
      THEN tasks[k].pc = "done" /\ tasks[k].result = NoResult
      ELSE runPc = "batch" /\ tasks[k].pc = "done"
             => [kind |-> "processing", name |-> tasks[k].file.name] \in processingDetails

(***************************************************************************)
(* Cancellation of an indexing run.                                        *)
(***************************************************************************)
\* C20: once cancellation is requested in a run (during the listing, during
\* a batch, the last one included, or during the delay between batches) no
\* batch is started any more, and the run ends with isIndexing = FALSE and
\* is reported as cancelled, not as completed.
C20_CancelledIsReported ==
  [][ (abortController = "aborted")
        => /\ ~(runPc = "loop" /\ runPc' = "batch")
           /\ (runPc # "idle" /\ runPc' = "idle")
                => (~isIndexing' /\ indexingStatus' = "cancelled") ]_vars

(***************************************************************************)
(* The batches of an indexing run.                                         *)
(***************************************************************************)
\* the per-file operations of the run that have started and not settled
InFlight == { k \in 1..Len(tasks) : tasks[k].pc \in {"fetch", "backoff"} }

RunInLoop == runPc \in {"loop", "batch", "delay"}

\* C21: during a run at most 2 per-file operations are in flight; a batch
\* starts only at the loop head, which is reached only from the listing or
\* after the delay, and the delay starts only when every operation of the
\* batch has settled; the processed counter reported to onIndexProgress does
\* not decrease within the run and does not exceed the files to process.
C21_BatchDiscipline ==
  /\ [](Cardinality(InFlight) <= 2)
  /\ [](RunInLoop => indexingProgress.current <= Len(filesToProcess))
  /\ [][ /\ (runPc # "batch" /\ runPc' = "batch")
            => (runPc = "loop" /\ InFlight = {})
         /\ (runPc # "loop" /\ runPc' = "loop")
            => runPc \in {"listing", "delay"}
         /\ (runPc # "delay" /\ runPc' = "delay")
            => (runPc = "batch" /\ InFlight = {})
         /\ (RunInLoop /\ RunInLoop')
            => indexingProgress'.current >= indexingProgress.current ]_vars

\* two operations are in flight while more files wait for a later batch
C21_Witness ==
  /\ runPc = "batch"
  /\ Cardinality(InFlight) = 2
  /\ Len(filesToProcess) > batchStart + 2

(***************************************************************************)
(* The full reset.                                                         *)
(***************************************************************************)
\* C22: when a run started from zero has ended without error, every entry
\* of the collection was produced by that run: the collection is the run's
\* own index, and each entry belongs to a file the run listed.
C22_ResetLeavesNoOldEntry ==
  (resetFromZero /\ (RunEnded("completed") \/ RunEnded("up-to-date")))
    => /\ appFileIndex = fileIndex
       /\ \A k \in 1..Len(appFileIndex) :
             \E j \in 1..Len(filesToProcess) :
                filesToProcess[j].path = appFileIndex[k].path

(***************************************************************************)
(* The incremental update.                                                 *)
(***************************************************************************)
\* the file has no entry in the index, or an entry older than the listing
IsNewOrChanged(index, file) ==
  \/ \A k \in 1..Len(index) : index[k].path # file.path
  \/ \E k \in 1..Len(index) :
        index[k].path = file.path /\ index[k].modified < file.server_modified

SelectedPaths == { filesToProcess[k].path : k \in 1..Len(filesToProcess) }

\* C23: in an incremental run every file of a content request is new or
\* changed with respect to the existing index; when the run has ended
\* without error, the entries of the existing index whose files were not
\* selected are in the collection unchanged, and every path of the existing
\* index is still covered.
C23_IncrementalUpdate ==
  ~resetFromZero =>
    /\ \A k \in 1..Len(tasks) :
          /\ tasks[k].file \in Range(filesToProcess)
          /\ IsNewOrChanged(existingIndex, tasks[k].file)
    /\ (RunEnded("completed") \/ RunEnded("up-to-date")) =>
          \A k \in 1..Len(existingIndex) :
             /\ existingIndex[k].path \notin SelectedPaths
                  => /\ k <= Len(appFileIndex)
                     /\ appFileIndex[k] = existingIndex[k]
             /\ \E e \in Range(appFileIndex) : e.path = existingIndex[k].path

\* an incremental run completed: it processed a file and carried over an
\* entry of the existing index whose file it did not select
C23_Witness ==
  /\ ~resetFromZero
  /\ RunEnded("completed")
  /\ \E k \in 1..Len(filesToProcess) :
        /\ ~Skipped(filesToProcess[k])
        /\ \E e \in Range(existingIndex) : e.path = filesToProcess[k].path
  /\ \E k \in 1..Len(existingIndex) :
        /\ existingIndex[k].path \notin SelectedPaths
        /\ appFileIndex[k] = existingIndex[k]

(***************************************************************************)
(* The retries of a content request.                                       *)
(***************************************************************************)
\* C24: a content request that fails at the transport is attempted at most
\* 3 times in total, each wait before a retry is at least twice the wait
\* before it, and a file whose last attempt failed has exactly one error
\* entry as its result.
C24_RetryBackoff ==
  \A k \in 1..Len(tasks) :
     /\ tasks[k].pc = "fetch" => tasks[k].retryCount + 1 <= 3
     /\ (tasks[k].pc = "backoff" /\ tasks[k].retryCount >= 2)
          => BackoffDelay(tasks[k].retryCount)
               >= 2 * BackoffDelay(tasks[k].retryCount - 1)
     /\ (tasks[k].pc = "done"
           /\ [kind |-> "error", name |-> tasks[k].file.name] \in processingDetails)
          => tasks[k].result = ProcessingErrorResult(tasks[k].file)

(***************************************************************************)
(* The truncation of overlong content.                                     *)
(***************************************************************************)
InitTruncate ==
  /\ IdleSearch /\ IdleContent /\ IdleIndexer /\ IdleClean /\ IdleStream
  /\ IdleContext
  /\ trOutput = <<>>
  /\ trInput \in TruncationInputs

NextTruncate == TruncateApply

\* the truncation block applied to one content
SpecTruncate == InitTruncate /\ [][NextTruncate]_vars

\* the indexes at which the text has width times the character ch in a row
PositionsOf(text, ch, width) ==
  UNION { RunStart(text, k)..(RunStart(text, k) + text[k].n - width) :
            k \in { j \in 1..Len(text) : text[j].ch = ch } }

\* C25: content of at most C characters is left as it is; of longer content
\* at most C characters are kept before the notice: the text up to the last
\* full stop within 1,000 characters before C, else up to the last paragraph
\* break within 2,000 characters before C, else the first C characters.
C25_TruncationCut ==
  trOutput # <<>> =>
    LET content == trInput.content
        C == trInput.ceiling
        out == trOutput[1]
        sentenceCuts == { i + 1 : i \in { j \in PositionsOf(content, ".", 1) :
                                            j > C - 1000 /\ j + 1 <= C } }
        paragraphCuts == { i + 2 : i \in { j \in PositionsOf(content, "\n", 2) :
                                             j > C - 2000 /\ j + 2 <= C } }
        cut == IF sentenceCuts # {} THEN Largest(sentenceCuts)
               ELSE IF paragraphCuts # {} THEN Largest(paragraphCuts)
               ELSE C
    IN IF RunsLength(content) <= C
         THEN out = [body |-> content, notice |-> FALSE]
         ELSE /\ out.notice
              /\ RunsLength(out.body) <= C
              /\ out.body = substring(content, cut)

(***************************************************************************)
(* The context of a search result.                                         *)
(***************************************************************************)
InitContext ==
  /\ IdleSearch /\ IdleContent /\ IdleIndexer /\ IdleClean /\ IdleStream
  /\ IdleTruncate
  /\ exResult = <<>>
  /\ exArgs \in ContextArgs

NextContext == ExtractApply

\* extractContext applied to one content and term list
SpecContext == InitContext /\ [][NextContext]_vars

\* the assembled snippets are longer than maxLength
ContextIsCut ==
  /\ Len(exResult[1].contexts) > 0
  /\ Len(JoinContexts(exResult[1].contexts)) > exArgs.maxLength

\* no term occurs anywhere in the content
NoTermOccurs ==
  \A k \in 1..Len(exArgs.searchTerms) :
     ~includes(toLowerCase(exArgs.content), exArgs.searchTerms[k])

FirstCharacters == SubSeq(exArgs.content, 1, Min(exArgs.maxLength, Len(exArgs.content)))

\* the returned string is a text of at most maxLength characters, followed
\* by the marker exactly when the assembled snippets were cut
ContextLengthBound ==
  IF ContextIsCut
    THEN exResult[1].value
           = SubSeq(JoinContexts(exResult[1].contexts), 1, exArgs.maxLength) \o Ellipsis
    ELSE Len(exResult[1].value) <= exArgs.maxLength

\* C26 as stated: the length bound, and without any occurrence of a term
\* the result is the first maxLength characters of the content.
C26_Original ==
  exResult # <<>> =>
    /\ ContextLengthBound
    /\ NoTermOccurs => exResult[1].value = FirstCharacters

\* C26: the returned string is a text of at most maxLength characters,
\* followed by the marker "..." exactly when the assembled snippets were
\* cut; when no term occurs in the content, the result is the first
\* maxLength characters of the content without the white space at their
\* two ends.
C26_ContextLength ==
  exResult # <<>> =>
    /\ ContextLengthBound
    /\ NoTermOccurs => exResult[1].value = trim(FirstCharacters)

\* two snippets were assembled and cut to maxLength
C26_Witness ==
  /\ exResult # <<>>
  /\ Len(exResult[1].contexts) = 2
  /\ ContextIsCut
  /\ Len(exResult[1].value) = exArgs.maxLength + Len(Ellipsis)

\* C27: the snippets joined into the context cover regions of the content
\* that do not overlap, on the whole-word path and on the substring path.
C27_NoOverlap ==
  exResult # <<>> =>
    \A i, j \in 1..Len(exResult[1].contexts) :
       i < j =>
         LET a == exResult[1].contexts[i]
             b == exResult[1].contexts[j]
         IN a.to < b.from \/ b.to < a.from

(***************************************************************************)
(* Errors inside the AI stream.                                            *)
(***************************************************************************)
\* C28: a done or error event is the last event of its stream, so there is
\* at most one of them and no token behind it; a request that ends as a
\* normal completion has read the done event; and when the stream of a
\* request that was not stopped carried an error event, the request ends as
\* an error with the error message as the displayed answer.
C28_StreamErrorIsTerminal ==
  /\ \A i \in 1..Len(streamEvents) :
        streamEvents[i] \in {"done", "error"} => i = Len(streamEvents)
  /\ (stPc = "idle" /\ stOutcome = "done")
       => (streamEvents # <<>> /\ streamEvents[Len(streamEvents)] = "done")
  /\ (stPc = "idle" /\ stOutcome # "aborted"
        /\ streamEvents # <<>> /\ streamEvents[Len(streamEvents)] = "error")
       => (stOutcome = "error" /\ aiResponse = ErrorNotice)

(***************************************************************************)
(* Logout.                                                                 *)
(***************************************************************************)
NextLogout == NextIndexing \/ handleLogout

\* a session of the indexer in which the user may log out at any moment
SpecLogout == InitIndexing /\ [][NextLogout]_vars

\* C29: after logout the document collection is empty and the local storage
\* holds no access token, no file index and no last-indexed timestamp, also
\* when a run was in flight at the moment of logout.
C29_LogoutClearsIndex ==
  ~authenticated => (appFileIndex = <<>> /\ storedIndex = <<>>)


\* C30: a well-formed search request (query and fileIndex present) is
\* answered with the success response, and every cleaned and every expanded
\* term consists only of word characters and extended Latin letters.
C30_TermsAreSafe ==
  (sPc = "responded" /\ sRequest.query # <<>> /\ sRequest.hasFileIndex) =>
     /\ sResponse.status = 200
     /\ sResponse.success
     /\ \A i \in 1..Len(sResponse.searchTerms) :
          Range(sResponse.searchTerms[i]) \subseteq (WordChars \cup ExtendedLatin)
     /\ \A i \in 1..Len(sResponse.expandedTerms) :
          Range(sResponse.expandedTerms[i]) \subseteq (WordChars \cup ExtendedLatin)

====
